---- MODULE Spec2Model ----
(***************************************************************************)
(* Timeboxing + Habits: the calendar scheduling and completion-tracking    *)
(* engine of src/src/components/ui/button.jsx (component App).             *)
(*                                                                         *)
(* Representation.                                                         *)
(*  - A JS Date pinned to local noon is its day number (days since         *)
(*    1970-01-01); the Date constructor's overflow rules are JSDate.       *)
(*  - An ISO string "YYYY-MM-DD" is the number YYYYMMDD (its digits).      *)
(*  - A "HH:MM" string is the tuple <<HH, MM>>; the empty string is <<>>.  *)
(*  - A typed text is [pre, body, post]: pre/post count the surrounding    *)
(*    white space, body is the text between.                               *)
(*  - A typed number is [nan, val]: Number(x) is NaN or val.               *)
(*  - uid() is a counter: every id it returns is new.                      *)
(*  - A React state update is two steps: the handler (its set-state calls) *)
(*    and then Effects, the passive effects of the render it caused.       *)
(***************************************************************************)
EXTENDS Integers, Sequences, FiniteSets, TLC

VARIABLES
    today,              \* useMemo(() => startOfDay(new Date()), [])
    selectedISO,        \* useState(toISODate(today))
    view,               \* useState("day")
    habits,             \* useState(DEFAULT_HABITS)
    habitChecksByDate,  \* useState({})
    eventsByDate,       \* useState({})
    dragPayload,        \* useState(null)
    eventModalOpen,     \* useState(false)
    eventModalISO,      \* useState(selectedISO)
    editingEventId,     \* useState(null)
    formTime,           \* useState("09:00")
    formTitle,          \* useState("")
    formDuration,       \* useState(30)
    formColor,          \* useState("#93c5fd")
    formNotes,          \* useState("")
    newHabitName,       \* useState("")
    storage,            \* localStorage[LS_KEY]: <<>> or <<blob>>
    timers,             \* pending setTimeout callbacks (closures)
    pending,            \* effects the last render scheduled
    phase,              \* "mount" before the mount effects ran, then "run"
    uidCounter,         \* ids handed out by uid()
    lastOp,             \* the last handler that ran, and whether it set state
    steps,              \* user operations so far (a dialog, once opened, is one)
    fieldEdits          \* fields typed into since the dialog was opened

vars == <<today, selectedISO, view, habits, habitChecksByDate, eventsByDate,
          dragPayload, eventModalOpen, eventModalISO, editingEventId,
          formTime, formTitle, formDuration, formColor, formNotes,
          newHabitName, storage, timers, pending, phase, uidCounter, lastOp, steps,
          fieldEdits>>

----------------------------------------------------------------------------
(* Bounds of the model *)

\* user operations in one behaviour
MaxSteps == 2
\* fields typed into while the dialog is open
MaxFieldEdits == 1
\* first and last day number a behaviour may select (2023-12-01, 2025-01-31)
MinDay == 19692
MaxDay == 20119

----------------------------------------------------------------------------
(* JS Date, pinned to noon: day numbers *)

\* days since 1970-01-01 of the proleptic Gregorian date y-m-d (m in 1..12):
\* years run March to February, eras are 400 years (146097 days)
DaysOfEra(era, yoe, doy) ==
    era * 146097 + (yoe * 365 + yoe \div 4 - yoe \div 100 + doy) - 719468
DaysOfYear(yy, mp, d) ==
    DaysOfEra(yy \div 400, yy % 400, (153 * mp + 2) \div 5 + d - 1)
DaysFromCivil(y, m, d) ==
    DaysOfYear(IF m <= 2 THEN y - 1 ELSE y, IF m > 2 THEN m - 3 ELSE m + 9, d)

\* <<year, month (1..12), day of month>> of a day number, the inverse
CivilOfMonth(y, m, d) == <<y + (IF m <= 2 THEN 1 ELSE 0), m, d>>
CivilOfMp(y, doy, mp) ==
    CivilOfMonth(y, IF mp < 10 THEN mp + 3 ELSE mp - 9, doy - (153 * mp + 2) \div 5 + 1)
CivilOfDoy(y, doy) == CivilOfMp(y, doy, (5 * doy + 2) \div 153)
CivilOfYoe(era, doe, yoe) ==
    CivilOfDoy(yoe + era * 400, doe - (365 * yoe + yoe \div 4 - yoe \div 100))
CivilOfDoe(era, doe) ==
    CivilOfYoe(era, doe,
               (doe - doe \div 1460 + doe \div 36524 - doe \div 146096) \div 365)
CivilOfZ(z) == CivilOfDoe(z \div 146097, z % 146097)
CivilFromDays(n) == CivilOfZ(n + 719468)

\* new Date(y, monthIndex, d, 12, 0, 0, 0): month index and day overflow carry
JSDate(y, monthIndex, d) ==
    DaysFromCivil(y + monthIndex \div 12, (monthIndex % 12) + 1, 1) + (d - 1)

getFullYear(x) == CivilFromDays(x)[1]
getMonth(x)    == CivilFromDays(x)[2] - 1
getDate(x)     == CivilFromDays(x)[3]
\* 0 Sun ... 6 Sat; 1970-01-01 was a Thursday
getDay(x)      == (x + 4) % 7

\* `${x.getFullYear()}-${pad2(x.getMonth() + 1)}-${pad2(x.getDate())}`
toISODate(d) == getFullYear(d) * 10000 + (getMonth(d) + 1) * 100 + getDate(d)

parseISODate(iso) == JSDate(iso \div 10000, ((iso \div 100) % 100) - 1, iso % 100)

\* setHours(12, 0, 0, 0) on a date that is already at noon
startOfDay(d) == d

\* the function below without the carry into the month before
addDaysFromFirst(d, n) ==
    startOfDay(JSDate(getFullYear(d), getMonth(d),
                      IF getDate(d) + n < 1 THEN 1 ELSE getDate(d) + n))

\* x.setDate(x.getDate() + n)
addDays(d, n) == startOfDay(JSDate(getFullYear(d), getMonth(d), getDate(d) + n))

\* day === 0 ? -6 : 1 - day
\* the difference below for a week that starts on Sunday
SundayDiff(day) == 0 - day
MondayDiff(day) == IF day = 0 THEN -6 ELSE 1 - day
startOfISOWeek(d) == addDays(startOfDay(d), MondayDiff(getDay(startOfDay(d))))

endOfISOWeek(d) == addDays(startOfISOWeek(d), 6)

\* x.setDate(n)
setDate(x, n) == JSDate(getFullYear(x), getMonth(x), n)
\* x.setMonth(m)
setMonth(x, m) == JSDate(getFullYear(x), m, getDate(x))

startOfMonth(d) == setDate(startOfDay(d), 1)

\* x.setMonth(x.getMonth() + 1); x.setDate(0)
NextMonth(x) == setMonth(x, getMonth(x) + 1)
\* the function below without startOfMonth: the month is added to the date itself
endOfMonthOfDate(d) == startOfDay(setDate(NextMonth(startOfDay(d)), 0))
endOfMonth(d) == startOfDay(setDate(NextMonth(startOfMonth(d)), 0))

\* for (let d = from; d <= to; d = addDays(d, 1)) out.push(d)
RECURSIVE DaysFromTo(_, _)
DaysFromTo(from, to) ==
    IF from <= to THEN <<from>> \o DaysFromTo(addDays(from, 1), to) ELSE <<>>

----------------------------------------------------------------------------
(* Plain values *)

Views == {"day", "week", "month"}

TIME_GRID_STEP_MIN == 15
DAY_START_MIN == 6 * 60
DAY_END_MIN == 22 * 60
WEEK_START_MIN == 0
WEEK_END_MIN == 24 * 60

HABIT_COLOR == "#bbf7d0"
CUSTOM_COLOR == "#93c5fd"

\* null for an id (uid() never returns it)
NoId == 0

DEFAULT_HABITS ==
    << [id |-> 1, name |-> "Vatten", active |-> TRUE],
       [id |-> 2, name |-> "Traning", active |-> TRUE],
       [id |-> 3, name |-> "Las 20 min", active |-> TRUE] >>

\* the first id uid() hands out: the ids of DEFAULT_HABITS are taken
FirstUid == Len(DEFAULT_HABITS) + 1

\* a JS object used as a map: a function whose domain is its own keys
EmptyObj == [k \in {} |-> 0]
Get(obj, k, dflt) == IF k \in DOMAIN obj THEN obj[k] ELSE dflt
Put(obj, k, v) == [x \in (DOMAIN obj) \cup {k} |-> IF x = k THEN v ELSE obj[x]]

Range(s) == {s[i] : i \in DOMAIN s}
MaxOf(S) == CHOOSE x \in S : \A y \in S : y <= x

\* typed text and String.prototype.trim
Text(pre, body, post) == [pre |-> pre, body |-> body, post |-> post]
PlainText(body) == Text(0, body, 0)
\* the text as typed: white space alone is a text that is not empty
untrimmed(t) == IF t.body = "" /\ t.pre + t.post > 0 THEN " " ELSE t.body
trim(t) == t.body

\* a typed number and Number(x)
Num(v) == [nan |-> FALSE, val |-> v]
NaN == [nan |-> TRUE, val |-> 0]

minutesToHHMM(m) == <<m \div 60, m % 60>>

\* "".split(":") has one part, so mm is NaN and the default 08:00 is returned
hhmmToMinutes(hhmm) ==
    IF Len(hhmm) < 2 THEN 8 * 60 ELSE hhmm[1] * 60 + hhmm[2]

\* Number(formDuration) || 30, without Math.max(5, ...)
DurationTyped(d) == IF d.nan \/ d.val = 0 THEN 30 ELSE d.val

\* Math.max(5, Number(formDuration) || 30)
DurationOf(d) ==
    LET n == IF d.nan \/ d.val = 0 THEN 30 ELSE d.val
    IN  IF n < 5 THEN 5 ELSE n

NoPayload == [source |-> "none", habitId |-> NoId, eventId |-> NoId]
PalettePayload(h) == [source |-> "palette", habitId |-> h, eventId |-> NoId]
ExistingPayload(e) == [source |-> "existing", habitId |-> NoId, eventId |-> e]

HabitBlock(id, h, startMin) ==
    [id |-> id, type |-> "habit", habitId |-> h.id, title |-> h.name,
     startMin |-> startMin, durationMin |-> 30, color |-> HABIT_COLOR, notes |-> ""]

CustomBlock(id, title, startMin, durationMin, color, notes) ==
    [id |-> id, type |-> "custom", title |-> title, startMin |-> startMin,
     durationMin |-> durationMin, color |-> color, notes |-> notes]

----------------------------------------------------------------------------
(* Derived values of a render *)

activeHabitsOf(hs) == SelectSeq(hs, LAMBDA h : h.active)
activeHabits == activeHabitsOf(habits)

selectedDateOf(iso) == parseISODate(iso)
selectedDate == selectedDateOf(selectedISO)

weekStartOf(iso) == startOfISOWeek(selectedDateOf(iso))
\* Array.from({ length: 7 }, (_, i) => addDays(weekStart, i))
DaysFrom(weekStart) == [i \in 1..7 |-> addDays(weekStart, i - 1)]
weekDaysOf(iso) == DaysFrom(weekStartOf(iso))
\* days.map((d) => toISODate(d))
ISOsOf(days) == [i \in DOMAIN days |-> toISODate(days[i])]
weekISOsOf(iso) == ISOsOf(weekDaysOf(iso))
weekISOs == weekISOsOf(selectedISO)

gridStartOf(first) == startOfISOWeek(first)
gridEndOf(last) == addDays(startOfISOWeek(addDays(last, 6)), 6)
monthDaysOf(iso) ==
    DaysFromTo(gridStartOf(startOfMonth(selectedDateOf(iso))),
               gridEndOf(endOfMonth(selectedDateOf(iso))))
monthDays == monthDaysOf(selectedISO)

visibleISOsOf(v, iso) ==
    IF v = "week" THEN weekISOsOf(iso)
    ELSE IF v = "month" THEN ISOsOf(monthDaysOf(iso))
    ELSE <<iso>>
visibleISOs == visibleISOsOf(view, selectedISO)

\* for (let m = from; m <= to; m += STEP_MIN) rows.push(m)
RowsFromTo(from, to) ==
    {m \in from..to : (m - from) % TIME_GRID_STEP_MIN = 0}
timeRows == RowsFromTo(DAY_START_MIN, DAY_END_MIN)
weekTimeRows == RowsFromTo(WEEK_START_MIN, WEEK_END_MIN)

----------------------------------------------------------------------------
(* Default habit blocks *)

\* the function below with Math.floor for Math.ceil
snapDownToTimeGrid(minutes) ==
    (minutes \div TIME_GRID_STEP_MIN) * TIME_GRID_STEP_MIN

snapToTimeGrid(minutes) ==
    ((minutes + TIME_GRID_STEP_MIN - 1) \div TIME_GRID_STEP_MIN) * TIME_GRID_STEP_MIN

\* the map below with the gap left out of the cursor's advance
RECURSIVE NewBlocksNoGap(_, _, _, _)
NewBlocksNoGap(missingHabits, i, cursor, uid) ==
    IF i > Len(missingHabits) THEN <<>>
    ELSE <<HabitBlock(uid, missingHabits[i], cursor)>>
         \o NewBlocksNoGap(missingHabits, i + 1, snapToTimeGrid(cursor + 30), uid + 1)

\* the map below with a cursor that stays where it is
RECURSIVE NewBlocksAtCursor(_, _, _, _)
NewBlocksAtCursor(missingHabits, i, cursor, uid) ==
    IF i > Len(missingHabits) THEN <<>>
    ELSE <<HabitBlock(uid, missingHabits[i], cursor)>>
         \o NewBlocksAtCursor(missingHabits, i + 1, cursor, uid + 1)

\* missingHabits.map(h => { block at cursor; cursor = snap(cursor + dur + gap) })
RECURSIVE NewBlocks(_, _, _, _)
NewBlocks(missingHabits, i, cursor, uid) ==
    IF i > Len(missingHabits) THEN <<>>
    ELSE <<HabitBlock(uid, missingHabits[i], cursor)>>
         \o NewBlocks(missingHabits, i + 1,
                      snapToTimeGrid(cursor + 30 + TIME_GRID_STEP_MIN), uid + 1)

\* the filter below without its test of existingHabitIds
MissingHabitsAll(existing, active) == active

\* the habits of `active` that have no habit block among `existing`
MissingHabits(existing, active) ==
    LET habitBlocks      == SelectSeq(existing, LAMBDA e : e.type = "habit")
        existingHabitIds == {habitBlocks[i].habitId : i \in DOMAIN habitBlocks}
    IN  SelectSeq(active, LAMBDA h : h.id \notin existingHabitIds)

\* the cursor below of a date taken to hold no habit block
FirstCursorAtBase(existing) == snapToTimeGrid(8 * 60)

\* the cursor below computed over every block of the date, not its habit blocks
FirstCursorOfAll(existing) ==
    snapToTimeGrid(IF Len(existing) > 0
                   THEN MaxOf({existing[i].startMin + existing[i].durationMin
                                 : i \in DOMAIN existing}) + TIME_GRID_STEP_MIN
                   ELSE 8 * 60)

\* where the first new block goes
FirstCursor(existing) ==
    LET habitBlocks == SelectSeq(existing, LAMBDA e : e.type = "habit")
        startBase   == 8 * 60
        gap         == TIME_GRID_STEP_MIN
        lastEnd     == IF Len(habitBlocks) > 0
                       THEN MaxOf({habitBlocks[i].startMin + habitBlocks[i].durationMin
                                     : i \in DOMAIN habitBlocks}) + gap
                       ELSE startBase
    IN  snapToTimeGrid(lastEnd)

\* the body below with next[iso] = newBlocks: the date's blocks are dropped
EnsureDayAnew(next, iso, active, uid) ==
    IF Len(MissingHabits(Get(next, iso, <<>>), active)) = 0
    THEN [events |-> next, uid |-> uid]
    ELSE [events |-> Put(next, iso,
                         NewBlocks(MissingHabits(Get(next, iso, <<>>), active), 1,
                                   FirstCursor(Get(next, iso, <<>>)), uid)),
          uid |-> uid + Len(MissingHabits(Get(next, iso, <<>>), active))]

\* the body of isos.forEach: one date of the updater
EnsureDay(next, iso, active, uid) ==
    LET existing      == Get(next, iso, <<>>)
        missingHabits == MissingHabits(existing, active)
        newBlocks     == NewBlocks(missingHabits, 1, FirstCursor(existing), uid)
    IN  IF Len(missingHabits) = 0
        THEN [events |-> next, uid |-> uid]
        ELSE [events |-> Put(next, iso, existing \o newBlocks),
              uid |-> uid + Len(newBlocks)]

\* the updater below with isos.forEach cut to the first date
ensureDefaultHabitBlocksForFirstDate(prev, isos, active, uid) ==
    IF Len(active) = 0 \/ Len(isos) = 0
    THEN [events |-> prev, uid |-> uid]
    ELSE EnsureDay(prev, isos[1], active, uid)

\* the set-state updater of ensureDefaultHabitBlocksForDates, with the
\* activeHabits its closure captured; [events, uid] after it. isos.forEach works
\* on the accumulating copy `next`: a date is changed at its first place in isos
\* (afterwards nothing is missing there), and its new blocks take the ids that
\* follow those handed out at the places before it.
ensureDefaultHabitBlocksForDates(prev, isos, active, uid) ==
    IF Len(active) = 0 \/ Len(isos) = 0
    THEN [events |-> prev, uid |-> uid]
    ELSE LET n == Len(isos)
             isFirst(i) == \A j \in 1..(i - 1) : isos[j] # isos[i]
             made == [i \in 1..n |->
                        IF isFirst(i)
                        THEN Len(MissingHabits(Get(prev, isos[i], <<>>), active))
                        ELSE 0]
             before[i \in 1..(n + 1)] == IF i = 1 THEN 0 ELSE before[i - 1] + made[i - 1]
             changed == {i \in 1..n : made[i] > 0}
             place(iso) == CHOOSE i \in changed : isos[i] = iso
         IN  [events |->
                 [iso \in (DOMAIN prev) \cup {isos[i] : i \in changed} |->
                     IF \E i \in changed : isos[i] = iso
                     THEN EnsureDay(prev, iso, active, uid + before[place(iso)]).events[iso]
                     ELSE prev[iso]],
              uid |-> uid + before[n + 1]]

ensureDefaultHabitBlocksForDay(prev, iso, active, uid) ==
    ensureDefaultHabitBlocksForDates(prev, <<iso>>, active, uid)

----------------------------------------------------------------------------
(* Inputs the model offers *)

\* the real current date at a page load
Todays == {JSDate(2024, 0, 31)}
\* dates typed into the date input
PickISOs == {20240229}
\* names typed into the new-habit input
NameInputs == {Text(1, "", 0), Text(1, "Yoga", 1)}
\* values typed into the dialog's fields
TimeInputs == {<<>>, <<23, 30>>}
TitleInputs == {Text(1, "", 1), Text(1, "Gym", 1)}
DurationInputs == {NaN, Num(0), Num(-10)}
ColorInputs == {"#fca5a5"}
NotesInputs == {"memo"}
\* timeline rows a drag is dropped on
DropRows == {8 * 60, DAY_END_MIN}

InRange(iso) == parseISODate(iso) \in MinDay..MaxDay

\* the columns of a week the model clicks in: its Monday and the selected day
OfferedWeekISOs == {weekISOs[1], selectedISO}
\* of the buttons made from a list, the model clicks the first and the last
EndsAt(list) == {i \in DOMAIN list : i = 1 \/ i = Len(list)}
Ends(list) == {list[i] : i \in EndsAt(list)}

----------------------------------------------------------------------------
(* Persistence *)

\* a JSON value as the load effect sees it: what it is and what it holds. A
\* property that is absent reads as undefined.
JUndefined == [shape |-> "undefined", val |-> 0]
JNull == [shape |-> "null", val |-> 0]
JEmptyStr == [shape |-> "emptyString", val |-> 0]
JStr(v) == [shape |-> "string", val |-> v]
JArr(v) == [shape |-> "array", val |-> v]
JObj(v) == [shape |-> "object", val |-> v]

\* if (s.x): undefined, null and "" are falsy, every array and object is truthy
Truthy(j) == j.shape \notin {"undefined", "null", "emptyString"}
\* Array.isArray(s.habits)
IsArray(j) == j.shape = "array"

\* the stored text: of an object, the text "null", or text that is no JSON
BlobOf(iso, v, hs, checks, events) ==
    [text |-> "object", selectedISO |-> JStr(iso), view |-> JStr(v),
     habits |-> JArr(hs), habitChecksByDate |-> JObj(checks),
     eventsByDate |-> JObj(events)]

\* JSON.stringify({ selectedISO, view, habits, habitChecksByDate, eventsByDate });
\* the data holds strings, numbers and booleans only, which JSON keeps
saveState(iso, v, hs, checks, events) == <<BlobOf(iso, v, hs, checks, events)>>

\* the try block of the load effect is left before its first set-state call: no
\* item, JSON.parse throws on text that is no JSON, s.selectedISO throws on null
LoadSkipped(store) == Len(store) = 0 \/ store[1].text # "object"
\* the value a guarded set-state call of the load leaves in a state
\* if (s.field) setField(s.field)
Loaded(store, field, dflt) ==
    IF ~LoadSkipped(store) /\ Truthy(store[1][field]) THEN store[1][field].val
    ELSE dflt
\* if (Array.isArray(s.habits)) setHabits(s.habits)
LoadedArray(store, field, dflt) ==
    IF ~LoadSkipped(store) /\ IsArray(store[1][field]) THEN store[1][field].val
    ELSE dflt

----------------------------------------------------------------------------
(* Set-state updaters *)

\* { ...e, ...patch }
Merge(e, patch) ==
    [k \in (DOMAIN e) \cup (DOMAIN patch) |->
        IF k \in DOMAIN patch THEN patch[k] ELSE e[k]]

addEventForDay(prev, iso, evt) ==
    Put(prev, iso, Append(Get(prev, iso, <<>>), evt))

\* the map below without its test of the id
updateEveryEventForDay(prev, iso, eventId, patch) ==
    Put(prev, iso,
        [i \in DOMAIN Get(prev, iso, <<>>) |-> Merge(Get(prev, iso, <<>>)[i], patch)])

updateEventForDay(prev, iso, eventId, patch) ==
    LET cur == Get(prev, iso, <<>>)
    IN  Put(prev, iso,
            [i \in DOMAIN cur |->
                IF cur[i].id = eventId THEN Merge(cur[i], patch) ELSE cur[i]])

deleteEventForDay(prev, iso, eventId) ==
    Put(prev, iso, SelectSeq(Get(prev, iso, <<>>), LAMBDA e : e.id # eventId))

moveEventToTime(prev, iso, eventId, newStartMin) ==
    updateEventForDay(prev, iso, eventId, [startMin |-> newStartMin])

\* habits.find(x => x.id === habitId)
FindHabit(hs, habitId) == SelectSeq(hs, LAMBDA x : x.id = habitId)

\* the function below for a date that holds no block of the habit yet
addMissingHabitBlockAtTime(prev, hs, iso, habitId, startMin, uid) ==
    IF Len(FindHabit(hs, habitId)) = 0
       \/ \E e \in Range(Get(prev, iso, <<>>)) : e.type = "habit" /\ e.habitId = habitId
    THEN prev
    ELSE addEventForDay(prev, iso, HabitBlock(uid, FindHabit(hs, habitId)[1], startMin))

addHabitBlockAtTime(prev, hs, iso, habitId, startMin, uid) ==
    LET found == FindHabit(hs, habitId)
    IN  IF Len(found) = 0 THEN prev
        ELSE addEventForDay(prev, iso, HabitBlock(uid, found[1], startMin))

deleteHabitFromHabits(prev, id) == SelectSeq(prev, LAMBDA h : h.id # id)

deleteHabitFromChecks(prev, id) ==
    [iso \in DOMAIN prev |->
        IF id \in DOMAIN prev[iso]
        THEN [h \in (DOMAIN prev[iso]) \ {id} |-> prev[iso][h]]
        ELSE prev[iso]]

\* the filter below without its test of habitId
deleteHabitBlocksOfAll(prev, id) ==
    [iso \in DOMAIN prev |-> SelectSeq(prev[iso], LAMBDA e : e.type # "habit")]

deleteHabitFromEvents(prev, id) ==
    [iso \in DOMAIN prev |->
        SelectSeq(prev[iso], LAMBDA e : e.type # "habit" \/ e.habitId # id)]

\* the map below without its test of the id
toggleEveryHabitIn(prev, id) ==
    [i \in DOMAIN prev |-> [prev[i] EXCEPT !.active = ~prev[i].active]]

toggleHabitActiveIn(prev, id) ==
    [i \in DOMAIN prev |->
        IF prev[i].id = id THEN [prev[i] EXCEPT !.active = ~prev[i].active]
        ELSE prev[i]]

\* the updater below with the date's row made anew: { ...prev, [iso]: { [habitId]: checked } }
setHabitCheckAlone(prev, iso, habitId, checked) ==
    Put(prev, iso, Put(EmptyObj, habitId, checked))

setHabitCheckIn(prev, iso, habitId, checked) ==
    Put(prev, iso, Put(Get(prev, iso, EmptyObj), habitId, checked))

\* !!habitChecksByDate[iso]?.[h.id]
IsChecked(checks, iso, habitId) == Get(Get(checks, iso, EmptyObj), habitId, FALSE)

\* for (d = startOfDay(start); d <= end; d = addDays(d, 1)) days.push(toISODate(d))
RangeISOs(startIso, endIsoInclusive) ==
    ISOsOf(DaysFromTo(startOfDay(parseISODate(startIso)),
                      parseISODate(endIsoInclusive)))

\* the turns of the nested loops over days and habitsActive (total += 1), and
\* the turns that find checks[h.id] set (done += 1)
Turns(days, habitsActive) == (DOMAIN days) \X (DOMAIN habitsActive)
DoneTurns(days, habitsActive, checks) ==
    {t \in Turns(days, habitsActive) :
        IsChecked(checks, days[t[1]], habitsActive[t[2]].id)}

\* Math.round((done / total) * 100) is computed in doubles: done / total is
\* rounded to 53 bits, and so is its product with 100. For every total up to
\* 1000 the result is the exact quotient rounded half up, except for the
\* quotients 23/40, 29/200, 57/200 and 113/200: their exact percentage ends in
\* .5 and the double computed is just below it (23/40 gives 57.49999999999999).
RoundsBelow(done, total) ==
    \/ 40 * done = 23 * total
    \/ 200 * done = 29 * total
    \/ 200 * done = 57 * total
    \/ 200 * done = 113 * total
pctOf(done, total) ==
    IF total = 0 THEN 0
    ELSE IF RoundsBelow(done, total) THEN (100 * done) \div total
    ELSE (200 * done + total) \div (2 * total)

Completion(done, total) ==
    [done |-> done, total |-> total, pct |-> pctOf(done, total)]

\* the loops below with done += 1 for every entry set in the day's checks
completionOfEveryCheck(startIso, endIsoInclusive, habitsActive, checks) ==
    IF Len(habitsActive) = 0 THEN [done |-> 0, total |-> 0, pct |-> 0]
    ELSE Completion(
            Cardinality({t \in UNION {{<<iso, id>> : id \in DOMAIN checks[iso]} :
                                         iso \in Range(RangeISOs(startIso, endIsoInclusive))
                                                 \cap DOMAIN checks} :
                            checks[t[1]][t[2]]}),
            Cardinality(Turns(RangeISOs(startIso, endIsoInclusive), habitsActive)))

completionForRange(startIso, endIsoInclusive, habitsActive, checks) ==
    IF Len(habitsActive) = 0 THEN [done |-> 0, total |-> 0, pct |-> 0]
    ELSE Completion(
            Cardinality(DoneTurns(RangeISOs(startIso, endIsoInclusive),
                                  habitsActive, checks)),
            Cardinality(Turns(RangeISOs(startIso, endIsoInclusive), habitsActive)))

todayComp ==
    completionForRange(selectedISO, selectedISO, activeHabits, habitChecksByDate)
weekComp ==
    completionForRange(toISODate(startOfISOWeek(selectedDate)),
                       toISODate(endOfISOWeek(selectedDate)),
                       activeHabits, habitChecksByDate)
monthComp ==
    completionForRange(toISODate(startOfMonth(selectedDate)),
                       toISODate(endOfMonth(selectedDate)),
                       activeHabits, habitChecksByDate)

\* the date goPrev (dir = -1) or goNext (dir = 1) selects
StepDate(v, d, dir) ==
    IF v = "day" THEN addDays(d, dir)
    ELSE IF v = "week" THEN addDays(d, 7 * dir)
    ELSE setMonth(d, getMonth(d) + dir)

goPrevTarget(v, iso) == toISODate(StepDate(v, selectedDateOf(iso), -1))

goNextTarget(v, iso) == toISODate(StepDate(v, selectedDateOf(iso), 1))

----------------------------------------------------------------------------
(* The state machine *)

modalVars == <<eventModalOpen, eventModalISO, editingEventId>>
formVars  == <<formTime, formTitle, formDuration, formColor, formNotes>>
pageVars  == <<today, storage, phase, newHabitName>>

\* the effects a render runs: the save effect when a persisted state was set,
\* the default-block effect when visibleISOs or activeHabits changed
SaveOnly == {"save"}
SaveAndEnsure == {"save", "materialize"}

\* the state useState gives at construction, for a page loaded on day t
Constructed(t) ==
    /\ today = t
    /\ selectedISO = toISODate(t)
    /\ view = "day"
    /\ habits = DEFAULT_HABITS
    /\ habitChecksByDate = EmptyObj
    /\ eventsByDate = EmptyObj
    /\ dragPayload = NoPayload
    /\ eventModalOpen = FALSE
    /\ eventModalISO = toISODate(t)
    /\ editingEventId = NoId
    /\ formTime = <<9, 0>>
    /\ formTitle = PlainText("")
    /\ formDuration = Num(30)
    /\ formColor = CUSTOM_COLOR
    /\ formNotes = ""
    /\ newHabitName = PlainText("")

Init ==
    /\ \E t \in Todays : Constructed(t)
    /\ storage = <<>>
    /\ timers = <<>>
    /\ pending = {}
    /\ phase = "mount"
    /\ uidCounter = FirstUid
    /\ lastOp = [op |-> "construct", changed |-> FALSE]
    /\ steps = 0
    /\ fieldEdits = 0

\* between renders
Idle == phase = "run" /\ pending = {}

\* the page behind the dialog's backdrop cannot be clicked
Outside == Idle /\ ~eventModalOpen /\ steps < MaxSteps
InDialog == Idle /\ eventModalOpen

\* a handler ran: the effects its render runs, and what it was
Handled(op, pend) ==
    /\ pending' = pend
    /\ lastOp' = [op |-> op, changed |-> pend # {}]

\* a user's click or input on the page
User(op, pend) ==
    /\ Outside
    /\ steps' = steps + 1
    /\ fieldEdits' = 0
    /\ Handled(op, pend)

\* a user's click or input in the dialog
Dialog(op, pend) ==
    /\ InDialog
    /\ Handled(op, pend)
    /\ UNCHANGED steps

\* the mount effects, in order: load, save, default blocks for today. The set-state
\* calls of the load come first in the queue, then the updater of the default
\* blocks, whose closure is the first render's (DEFAULT_HABITS, today).
Mount ==
    /\ phase = "mount"
    /\ LET iso0   == Loaded(storage, "selectedISO", selectedISO)
           view0  == Loaded(storage, "view", view)
           evs0   == Loaded(storage, "eventsByDate", eventsByDate)
           r      == ensureDefaultHabitBlocksForDates(
                        evs0, <<selectedISO>>, activeHabitsOf(habits), uidCounter)
           \* setHabits(s.habits) makes activeHabits anew
           newActive == ~LoadSkipped(storage) /\ IsArray(storage[1].habits)
       IN  /\ selectedISO' = iso0
           /\ view' = view0
           /\ habits' = LoadedArray(storage, "habits", habits)
           /\ habitChecksByDate' =
                 Loaded(storage, "habitChecksByDate", habitChecksByDate)
           /\ eventsByDate' = r.events
           /\ uidCounter' = r.uid
           /\ storage' = saveState(selectedISO, view, habits, habitChecksByDate,
                                   eventsByDate)
           /\ pending' = IF newActive \/ iso0 # selectedISO \/ view0 # view
                         THEN SaveAndEnsure ELSE SaveOnly
    /\ phase' = "run"
    /\ lastOp' = [op |-> "mount", changed |-> TRUE]
    /\ UNCHANGED <<today, newHabitName, dragPayload, modalVars, formVars, timers, steps,
                   fieldEdits>>

\* the effects of the last render, to quiescence: the default-block effect with
\* this render's closure, and the save effect of the last render it causes
Effects ==
    /\ phase = "run"
    /\ pending # {}
    /\ LET r == IF "materialize" \in pending
                THEN ensureDefaultHabitBlocksForDates(
                        eventsByDate, visibleISOs, activeHabits, uidCounter)
                ELSE [events |-> eventsByDate, uid |-> uidCounter]
       IN  /\ eventsByDate' = r.events
           /\ uidCounter' = r.uid
           /\ storage' = saveState(selectedISO, view, habits, habitChecksByDate,
                                   r.events)
    /\ pending' = {}
    /\ UNCHANGED <<today, newHabitName, selectedISO, view, habits, habitChecksByDate,
                   dragPayload, modalVars, formVars, timers, phase, lastOp, steps,
                   fieldEdits>>

\* setTimeout(() => ensureDefaultHabitBlocksForDay(selectedISO), 0): the callback
\* runs with the selectedISO and activeHabits of the render that was clicked
TimerFire ==
    /\ phase = "run"
    /\ pending = {}
    /\ Len(timers) > 0
    /\ LET t == Head(timers)
           r == ensureDefaultHabitBlocksForDay(eventsByDate, t.iso, t.active,
                                               uidCounter)
       IN  /\ eventsByDate' = r.events
           /\ uidCounter' = r.uid
           /\ pending' = IF r.events # eventsByDate THEN SaveOnly ELSE {}
           /\ lastOp' = [op |-> "timer", changed |-> r.events # eventsByDate]
    /\ timers' = Tail(timers)
    /\ UNCHANGED <<today, newHabitName, selectedISO, view, habits, habitChecksByDate,
                   dragPayload, modalVars, formVars, storage, phase, steps,
                   fieldEdits>>

\* the page is loaded again: every state is constructed anew, storage stays
Reload ==
    /\ Idle
    /\ steps < MaxSteps
    /\ steps' = steps + 1
    /\ fieldEdits' = 0
    /\ Handled("reload", {})
    /\ \E t \in Todays :
          /\ today' = t
          /\ selectedISO' = toISODate(t)
          /\ eventModalISO' = toISODate(t)
    /\ view' = "day"
    /\ habits' = DEFAULT_HABITS
    /\ habitChecksByDate' = EmptyObj
    /\ eventsByDate' = EmptyObj
    /\ dragPayload' = NoPayload
    /\ eventModalOpen' = FALSE
    /\ editingEventId' = NoId
    /\ formTime' = <<9, 0>>
    /\ formTitle' = PlainText("")
    /\ formDuration' = Num(30)
    /\ formColor' = CUSTOM_COLOR
    /\ formNotes' = ""
    /\ newHabitName' = PlainText("")
    /\ phase' = "mount"
    /\ timers' = <<>>
    /\ UNCHANGED <<storage, uidCounter>>

----------------------------------------------------------------------------
(* Navigation *)

Select(op, iso, v) ==
    /\ InRange(iso)
    /\ User(op, IF iso # selectedISO \/ v # view THEN SaveAndEnsure ELSE {})
    /\ selectedISO' = iso
    /\ view' = v
    /\ UNCHANGED <<habits, habitChecksByDate, eventsByDate, dragPayload,
                   modalVars, formVars, pageVars, timers, uidCounter>>

goPrev == Outside /\ Select("goPrev", goPrevTarget(view, selectedISO), view)

goNext == Outside /\ Select("goNext", goNextTarget(view, selectedISO), view)

goToday == Outside /\ Select("goToday", toISODate(today), view)

\* the date input's onChange
PickDate == Outside /\ \E iso \in PickISOs : Select("pickDate", iso, view)

\* the view select's onChange
SetView == Outside /\ \E v \in Views \ {view} : Select("setView", selectedISO, v)

\* a day button of the week grid, the week view or the month view
PickDay ==
    /\ Outside
    /\ \E iso \in Ends(weekISOs) \cup (IF view = "month" THEN Ends(visibleISOs) ELSE {}) :
          Select("pickDay", iso, "day")

----------------------------------------------------------------------------
(* Habits *)

\* the handler below with the new habit put first: [{ ... }, ...prev]
addHabitAtFront ==
    /\ Outside
    /\ \E typed \in NameInputs :
        LET name == trim(typed)
        IN  /\ User("addHabit", IF name = "" THEN {} ELSE SaveAndEnsure)
            /\ habits' = IF name = "" THEN habits
                         ELSE <<[id |-> uidCounter, name |-> name,
                                 active |-> TRUE]>> \o habits
            /\ uidCounter' = IF name = "" THEN uidCounter ELSE uidCounter + 1
            /\ newHabitName' = IF name = "" THEN typed ELSE PlainText("")
            /\ UNCHANGED <<selectedISO, view, habitChecksByDate, eventsByDate,
                           dragPayload, modalVars, formVars, today, storage,
                           phase, timers>>

\* a name is typed into the new-habit input (setNewHabitName) and the button
\* is clicked
addHabit ==
    /\ Outside
    /\ \E typed \in NameInputs :
        LET name == trim(typed)
        IN  /\ User("addHabit", IF name = "" THEN {} ELSE SaveAndEnsure)
            /\ habits' = IF name = "" THEN habits
                         ELSE Append(habits, [id |-> uidCounter, name |-> name,
                                              active |-> TRUE])
            /\ uidCounter' = IF name = "" THEN uidCounter ELSE uidCounter + 1
            /\ newHabitName' = IF name = "" THEN typed ELSE PlainText("")
            /\ UNCHANGED <<selectedISO, view, habitChecksByDate, eventsByDate,
                           dragPayload, modalVars, formVars, today, storage,
                           phase, timers>>

\* what a click on a habit's toggle is: its active flag is shown on the button
ToggleOp(h) == IF h.active THEN "deactivateHabit" ELSE "activateHabit"

toggleHabitActive ==
    /\ Outside
    /\ \E i \in EndsAt(habits) :
        /\ User(ToggleOp(habits[i]), SaveAndEnsure)
        /\ habits' = toggleHabitActiveIn(habits, habits[i].id)
        /\ UNCHANGED <<selectedISO, view, habitChecksByDate, eventsByDate,
                       dragPayload, modalVars, formVars, pageVars, timers,
                       uidCounter>>

deleteHabit ==
    /\ Outside
    /\ \E i \in EndsAt(habits) :
        /\ User("deleteHabit", SaveAndEnsure)
        /\ habits' = deleteHabitFromHabits(habits, habits[i].id)
        /\ habitChecksByDate' = deleteHabitFromChecks(habitChecksByDate, habits[i].id)
        /\ eventsByDate' = deleteHabitFromEvents(eventsByDate, habits[i].id)
        /\ UNCHANGED <<selectedISO, view, dragPayload, modalVars, formVars,
                       pageVars, timers, uidCounter>>

\* a checkbox of the week grid: e.target.checked is the opposite of what is shown
setHabitCheckForDate ==
    /\ Outside
    /\ \E iso \in OfferedWeekISOs, i \in EndsAt(activeHabits) :
        /\ User("setHabitCheckForDate", SaveOnly)
        /\ habitChecksByDate' =
              setHabitCheckIn(habitChecksByDate, iso, activeHabits[i].id,
                              ~IsChecked(habitChecksByDate, iso, activeHabits[i].id))
        /\ UNCHANGED <<selectedISO, view, habits, eventsByDate, dragPayload,
                       modalVars, formVars, pageVars, timers, uidCounter>>

----------------------------------------------------------------------------
(* The event dialog *)

\* the blocks of a date that a view shows on rows of its time grid
OnRows(iso, rows) ==
    SelectSeq(Get(eventsByDate, iso, <<>>), LAMBDA e : e.startMin \in rows)

\* eventsByDate[selectedISO] ?? []
OfSelectedDay == Get(eventsByDate, selectedISO, <<>>)

\* the sort below with blocks of equal startMin in reverse order
sortTiesReversed(arr) ==
    [p \in DOMAIN arr |->
        arr[CHOOSE i \in DOMAIN arr :
                Cardinality({j \in DOMAIN arr :
                    \/ arr[j].startMin < arr[i].startMin
                    \/ arr[j].startMin = arr[i].startMin /\ j >= i}) = p]]

\* the place of arr[i] in [...arr].sort((a, b) => a.startMin - b.startMin):
\* Array.prototype.sort is stable, the copy is sorted and arr is left as it is
SortedPlace(arr, i) ==
    Cardinality({j \in DOMAIN arr :
        \/ arr[j].startMin < arr[i].startMin
        \/ arr[j].startMin = arr[i].startMin /\ j <= i})
sortByStartMin(arr) ==
    [p \in DOMAIN arr |-> arr[CHOOSE i \in DOMAIN arr : SortedPlace(arr, i) = p]]

\* the blocks the list under the timeline shows
dayEventsSorted == sortByStartMin(OfSelectedDay)

openAddEventModal ==
    /\ Outside
    /\ User("openAddEventModal", {})
    /\ eventModalISO' = selectedISO
    /\ editingEventId' = NoId
    /\ formTime' = <<9, 0>>
    /\ formTitle' = PlainText("")
    /\ formDuration' = Num(30)
    /\ formColor' = CUSTOM_COLOR
    /\ formNotes' = ""
    /\ eventModalOpen' = TRUE
    /\ UNCHANGED <<selectedISO, view, habits, habitChecksByDate, eventsByDate,
                   dragPayload, pageVars, timers, uidCounter>>

openEditEventModal ==
    /\ Outside
    /\ \E iso \in (IF view = "week" THEN OfferedWeekISOs
                ELSE IF view = "day" THEN {selectedISO} ELSE {}) :
      \E evt \in Ends(IF view = "week" THEN OnRows(iso, weekTimeRows)
                       ELSE dayEventsSorted) :
        /\ User("openEditEventModal", {})
        /\ eventModalISO' = iso
        /\ editingEventId' = evt.id
        /\ formTime' = minutesToHHMM(evt.startMin)
        /\ formTitle' = PlainText(evt.title)
        /\ formDuration' = Num(evt.durationMin)
        /\ formColor' = evt.color
        /\ formNotes' = evt.notes
        /\ eventModalOpen' = TRUE
        /\ UNCHANGED <<selectedISO, view, habits, habitChecksByDate, eventsByDate,
                       dragPayload, pageVars, timers, uidCounter>>

\* an onChange of one field of the dialog
SetField(op) ==
    /\ InDialog
    /\ fieldEdits < MaxFieldEdits
    /\ fieldEdits' = fieldEdits + 1
    /\ Dialog(op, {})
    /\ UNCHANGED <<selectedISO, view, habits, habitChecksByDate, eventsByDate,
                   dragPayload, modalVars, pageVars, timers, uidCounter>>

setFormTime ==
    /\ SetField("setFormTime")
    /\ \E v \in TimeInputs : formTime' = v
    /\ UNCHANGED <<formTitle, formDuration, formColor, formNotes>>

setFormTitle ==
    /\ SetField("setFormTitle")
    /\ \E v \in TitleInputs : formTitle' = v
    /\ UNCHANGED <<formTime, formDuration, formColor, formNotes>>

setFormDuration ==
    /\ SetField("setFormDuration")
    /\ \E v \in DurationInputs : formDuration' = v
    /\ UNCHANGED <<formTime, formTitle, formColor, formNotes>>

setFormColor ==
    /\ SetField("setFormColor")
    /\ \E v \in ColorInputs : formColor' = v
    /\ UNCHANGED <<formTime, formTitle, formDuration, formNotes>>

setFormNotes ==
    /\ SetField("setFormNotes")
    /\ \E v \in NotesInputs : formNotes' = v
    /\ UNCHANGED <<formTime, formTitle, formDuration, formColor>>

\* the fields saveEventModal writes
FormPatch(title) ==
    [title |-> title, startMin |-> hhmmToMinutes(formTime),
     durationMin |-> DurationOf(formDuration),
     color |-> IF formColor = "" THEN CUSTOM_COLOR ELSE formColor,
     notes |-> formNotes]

saveEventModal ==
    LET title == trim(formTitle)
        p     == FormPatch(title)
    IN  /\ InDialog
        /\ Dialog("saveEventModal", IF title = "" THEN {} ELSE SaveOnly)
        /\ UNCHANGED fieldEdits
        /\ IF title = ""
           THEN UNCHANGED <<eventsByDate, uidCounter, eventModalOpen>>
           ELSE /\ eventsByDate' =
                      IF editingEventId = NoId
                      THEN addEventForDay(eventsByDate, eventModalISO,
                              CustomBlock(uidCounter, p.title, p.startMin,
                                          p.durationMin, p.color, p.notes))
                      ELSE updateEventForDay(eventsByDate, eventModalISO,
                                             editingEventId, p)
                /\ uidCounter' = IF editingEventId = NoId THEN uidCounter + 1
                                 ELSE uidCounter
                /\ eventModalOpen' = FALSE
        /\ UNCHANGED <<selectedISO, view, habits, habitChecksByDate, dragPayload,
                       eventModalISO, editingEventId, formVars, pageVars, timers>>

deleteFromModal ==
    /\ InDialog
    /\ editingEventId # NoId
    /\ Dialog("deleteFromModal", SaveOnly)
    /\ UNCHANGED fieldEdits
    /\ eventsByDate' = deleteEventForDay(eventsByDate, eventModalISO, editingEventId)
    /\ eventModalOpen' = FALSE
    /\ UNCHANGED <<selectedISO, view, habits, habitChecksByDate, dragPayload,
                   eventModalISO, editingEventId, formVars, pageVars, timers,
                   uidCounter>>

\* the dialog's close and cancel buttons and its backdrop
closeEventModal ==
    /\ InDialog
    /\ Dialog("closeEventModal", {})
    /\ UNCHANGED fieldEdits
    /\ eventModalOpen' = FALSE
    /\ UNCHANGED <<selectedISO, view, habits, habitChecksByDate, eventsByDate,
                   dragPayload, eventModalISO, editingEventId, formVars, pageVars,
                   timers, uidCounter>>

----------------------------------------------------------------------------
(* The day view: timeline and palette *)

DayView == Outside /\ view = "day"
\* a drag that was started ends with its drop: the drop is no operation of its own
Dropping == Idle /\ ~eventModalOpen /\ view = "day" /\ dragPayload.source # "none"

\* the delete button of a block on the timeline
deleteEventButton ==
    /\ DayView
    /\ \E e \in Ends(OnRows(selectedISO, timeRows)) :
        /\ User("deleteEventForDay", SaveOnly)
        /\ eventsByDate' = deleteEventForDay(eventsByDate, selectedISO, e.id)
        /\ UNCHANGED <<selectedISO, view, habits, habitChecksByDate, dragPayload,
                       modalVars, formVars, pageVars, timers, uidCounter>>

Drag(op, payload) ==
    /\ User(op, {})
    /\ dragPayload' = payload
    /\ UNCHANGED <<selectedISO, view, habits, habitChecksByDate, eventsByDate,
                   modalVars, formVars, pageVars, timers, uidCounter>>

dragStartPalette ==
    /\ DayView
    /\ \E i \in EndsAt(activeHabits) :
        Drag("dragStartPalette", PalettePayload(activeHabits[i].id))

dragStartExisting ==
    /\ DayView
    /\ \E e \in Ends(OnRows(selectedISO, timeRows)) :
        Drag("dragStartExisting", ExistingPayload(e.id))

\* the handler below with setDragPayload(null) moved into its two branches
dropOnRowClearingAfterUse ==
    /\ Dropping
    /\ \E m \in DropRows :
        LET known == Len(FindHabit(habits, dragPayload.habitId)) > 0
            sets  == dragPayload.source = "existing"
                     \/ (dragPayload.source = "palette" /\ known)
        IN  /\ Handled("dropOnRow", IF sets THEN SaveOnly ELSE {})
            /\ eventsByDate' =
                  IF dragPayload.source = "existing"
                  THEN moveEventToTime(eventsByDate, selectedISO,
                                       dragPayload.eventId, m)
                  ELSE addHabitBlockAtTime(eventsByDate, habits, selectedISO,
                                           dragPayload.habitId, m, uidCounter)
            /\ uidCounter' = IF dragPayload.source = "palette" /\ known
                             THEN uidCounter + 1 ELSE uidCounter
            /\ dragPayload' = IF known THEN NoPayload ELSE dragPayload
            /\ UNCHANGED <<selectedISO, view, habits, habitChecksByDate,
                           modalVars, formVars, pageVars, timers, steps,
                           fieldEdits>>

\* onDrop of the timeline row of minute m
dropOnRow ==
    /\ Dropping
    /\ \E m \in DropRows :
        LET known == Len(FindHabit(habits, dragPayload.habitId)) > 0
            sets  == dragPayload.source = "existing"
                     \/ (dragPayload.source = "palette" /\ known)
        IN  /\ Handled("dropOnRow", IF sets THEN SaveOnly ELSE {})
            /\ eventsByDate' =
                  IF dragPayload.source = "existing"
                  THEN moveEventToTime(eventsByDate, selectedISO,
                                       dragPayload.eventId, m)
                  ELSE addHabitBlockAtTime(eventsByDate, habits, selectedISO,
                                           dragPayload.habitId, m, uidCounter)
            /\ uidCounter' = IF dragPayload.source = "palette" /\ known
                             THEN uidCounter + 1 ELSE uidCounter
            /\ dragPayload' = NoPayload
            /\ UNCHANGED <<selectedISO, view, habits, habitChecksByDate,
                           modalVars, formVars, pageVars, timers, steps,
                           fieldEdits>>

\* the handler below with an updater that keeps no block of the day
recreateDefaultsOfAll ==
    /\ DayView
    /\ User("recreateDefaults", SaveOnly)
    /\ eventsByDate' = Put(eventsByDate, selectedISO, <<>>)
    /\ timers' = Append(timers, [iso |-> selectedISO, active |-> activeHabits])
    /\ UNCHANGED <<selectedISO, view, habits, habitChecksByDate, dragPayload,
                   modalVars, formVars, pageVars, uidCounter>>

\* the recreate-defaults button: drop the day's habit blocks now, create the
\* defaults in a timer
recreateDefaults ==
    /\ DayView
    /\ User("recreateDefaults", SaveOnly)
    /\ eventsByDate' =
          Put(eventsByDate, selectedISO,
              SelectSeq(Get(eventsByDate, selectedISO, <<>>),
                        LAMBDA e : e.type # "habit"))
    /\ timers' = Append(timers, [iso |-> selectedISO, active |-> activeHabits])
    /\ UNCHANGED <<selectedISO, view, habits, habitChecksByDate, dragPayload,
                   modalVars, formVars, pageVars, uidCounter>>

----------------------------------------------------------------------------
(* Specification *)

Next ==
    \/ Mount
    \/ Effects
    \/ TimerFire
    \/ Reload
    \/ goPrev
    \/ goNext
    \/ goToday
    \/ PickDate
    \/ SetView
    \/ PickDay
    \/ addHabit
    \/ toggleHabitActive
    \/ deleteHabit
    \/ setHabitCheckForDate
    \/ openAddEventModal
    \/ openEditEventModal
    \/ setFormTime
    \/ setFormTitle
    \/ setFormDuration
    \/ setFormColor
    \/ setFormNotes
    \/ saveEventModal
    \/ deleteFromModal
    \/ closeEventModal
    \/ deleteEventButton
    \/ dragStartPalette
    \/ dragStartExisting
    \/ dropOnRow
    \/ recreateDefaults

Spec == Init /\ [][Next]_vars

\* the page where localStorage.setItem may throw (storage full or refused): the
\* catch block of the save effect ignores it, the item stays as it was
mountSaveFails ==
    /\ phase = "mount"
    /\ LET iso0   == Loaded(storage, "selectedISO", selectedISO)
           view0  == Loaded(storage, "view", view)
           evs0   == Loaded(storage, "eventsByDate", eventsByDate)
           r      == ensureDefaultHabitBlocksForDates(
                        evs0, <<selectedISO>>, activeHabitsOf(habits), uidCounter)
           newActive == ~LoadSkipped(storage) /\ IsArray(storage[1].habits)
       IN  /\ selectedISO' = iso0
           /\ view' = view0
           /\ habits' = LoadedArray(storage, "habits", habits)
           /\ habitChecksByDate' =
                 Loaded(storage, "habitChecksByDate", habitChecksByDate)
           /\ eventsByDate' = r.events
           /\ uidCounter' = r.uid
           /\ pending' = IF newActive \/ iso0 # selectedISO \/ view0 # view
                         THEN SaveAndEnsure ELSE SaveOnly
    /\ phase' = "run"
    /\ lastOp' = [op |-> "mount", changed |-> TRUE]
    /\ UNCHANGED <<today, newHabitName, dragPayload, modalVars, formVars, timers, steps,
                   fieldEdits, storage>>

\* the action below with a throw that ends the effects of the render: the
\* default-block effect, which comes after the save effect, does not run
saveFailsEndingEffects ==
    /\ phase = "run"
    /\ pending # {}
    /\ pending' = {}
    /\ UNCHANGED <<today, newHabitName, selectedISO, view, habits, habitChecksByDate,
                   eventsByDate, uidCounter, storage,
                   dragPayload, modalVars, formVars, timers, phase, lastOp, steps,
                   fieldEdits>>

\* the effects of the last render with a save that throws. The save effect runs
\* before the default-block effect and again in the render that effect causes:
\* the item is left as it was, or as the first of the two saves wrote it.
saveFails ==
    /\ phase = "run"
    /\ pending # {}
    /\ LET r == IF "materialize" \in pending
                THEN ensureDefaultHabitBlocksForDates(
                        eventsByDate, visibleISOs, activeHabits, uidCounter)
                ELSE [events |-> eventsByDate, uid |-> uidCounter]
       IN  /\ eventsByDate' = r.events
           /\ uidCounter' = r.uid
           /\ \/ storage' = storage
              \/ /\ r.events # eventsByDate
                 /\ storage' = saveState(selectedISO, view, habits,
                                         habitChecksByDate, eventsByDate)
    /\ pending' = {}
    /\ UNCHANGED <<today, newHabitName, selectedISO, view, habits, habitChecksByDate,
                   dragPayload, modalVars, formVars, timers, phase, lastOp, steps,
                   fieldEdits>>

NextSave ==
    \/ Next
    \/ mountSaveFails
    \/ saveFails

SpecSave == Init /\ [][NextSave]_vars

\* the page loaded over an item the app saved with a habit switched off: the
\* blocks of a date, made while the default habits were active, are still there
\* the default blocks of a date, as the default-block effect made them
OriginalBlocks(iso) ==
    ensureDefaultHabitBlocksForDay(EmptyObj, iso, DEFAULT_HABITS, FirstUid).events
\* the item saved on date iso in view v with habit h switched off and the other
\* habits kept, or deleted together with their blocks
SavedWithHabitOff(iso, v, h, alone) ==
    saveState(iso, v,
              SelectSeq(toggleHabitActiveIn(DEFAULT_HABITS, h),
                        LAMBDA x : ~alone \/ x.id = h),
              EmptyObj,
              [d \in {iso} |->
                  SelectSeq(OriginalBlocks(iso)[iso],
                            LAMBDA e : ~alone \/ e.habitId = h)])

InitReactivate ==
    /\ \E t \in Todays :
          /\ Constructed(t)
          /\ \E iso \in {toISODate(t), 20240229}, v \in {"day", "week"},
                h \in DOMAIN DEFAULT_HABITS, alone \in BOOLEAN :
                storage = SavedWithHabitOff(iso, v, DEFAULT_HABITS[h].id, alone)
    /\ timers = <<>>
    /\ pending = {}
    /\ phase = "mount"
    /\ uidCounter = FirstUid + Len(DEFAULT_HABITS)
    /\ lastOp = [op |-> "construct", changed |-> FALSE]
    /\ steps = 0
    /\ fieldEdits = 0

NextReactivate ==
    \/ Mount
    \/ Effects
    \/ toggleHabitActive
    \/ deleteEventButton

SpecReactivate == InitReactivate /\ [][NextReactivate]_vars

\* the navigation of a page loaded on any day of the range
InitDates ==
    /\ \E t \in MinDay..MaxDay : Constructed(t)
    /\ storage = <<>>
    /\ timers = <<>>
    /\ pending = {}
    /\ phase = "mount"
    /\ uidCounter = FirstUid
    /\ lastOp = [op |-> "construct", changed |-> FALSE]
    /\ steps = 0
    /\ fieldEdits = 0

NextDates ==
    \/ Mount
    \/ Effects
    \/ goPrev
    \/ goNext
    \/ goToday
    \/ SetView
    \/ PickDay

SpecDates == InitDates /\ [][NextDates]_vars

\* the page loaded over an item of localStorage that the app did not write:
\* each property absent, falsy, of the wrong shape or well-formed
StoredISOs == <<JUndefined, JEmptyStr, JStr(1), JStr(20240229)>>
StoredViews == <<JUndefined, JNull, JStr("year"), JStr("week")>>
StoredHabits ==
    <<JUndefined, JObj(EmptyObj),
      JArr(<<[id |-> 1, name |-> "Vatten", active |-> FALSE]>>)>>
StoredChecks ==
    <<JUndefined, JArr(<<1>>),
      JObj(Put(EmptyObj, 20240229, Put(EmptyObj, 1, TRUE)))>>
StoredEvents ==
    <<JUndefined, JArr(<<1>>),
      JObj(Put(EmptyObj, 20240229,
               <<CustomBlock(FirstUid, "Gym", 9 * 60, 30, CUSTOM_COLOR, "")>>))>>
\* the item of a text that is no object: the text "null", text that is no JSON
NoObject(t) ==
    [text |-> t, selectedISO |-> JUndefined, view |-> JUndefined,
     habits |-> JUndefined, habitChecksByDate |-> JUndefined,
     eventsByDate |-> JUndefined]

InitLoad ==
    /\ \E t \in Todays : Constructed(t)
    /\ \/ storage = <<>>
       \/ \E t \in {"null", "garbage"} : storage = <<NoObject(t)>>
       \/ \E i \in DOMAIN StoredISOs, v \in DOMAIN StoredViews,
             h \in DOMAIN StoredHabits, c \in DOMAIN StoredChecks,
             e \in DOMAIN StoredEvents :
               storage = <<[text |-> "object", selectedISO |-> StoredISOs[i],
                            view |-> StoredViews[v], habits |-> StoredHabits[h],
                            habitChecksByDate |-> StoredChecks[c],
                            eventsByDate |-> StoredEvents[e]]>>
    /\ timers = <<>>
    /\ pending = {}
    /\ phase = "mount"
    /\ uidCounter = FirstUid + 1
    /\ lastOp = [op |-> "construct", changed |-> FALSE]
    /\ steps = 0
    /\ fieldEdits = 0

NextLoad == Mount

SpecLoad == InitLoad /\ [][NextLoad]_vars

\* the page loaded over an item the app saved after habits were added and
\* switched off and boxes of April 2024 were ticked day after day
CheckedISOs == RangeISOs(20240401, 20240430)
CheckedIds == <<1, 2, 3, 4>>
InactiveId == 5
DeletedId == 9
\* the row of the i-th date when the first k boxes, by date and then by habit,
\* are ticked: the boxes of an inactive habit and of a deleted one are ticked too
CheckedRow(k, i) ==
    [id \in Range(CheckedIds) \cup {InactiveId, DeletedId} |->
        IF id \in {InactiveId, DeletedId} THEN TRUE
        ELSE (i - 1) * Len(CheckedIds) + id <= k]
\* dates after the last ticked box have no row
CheckedFirst(k) ==
    [iso \in {CheckedISOs[i] : i \in {j \in DOMAIN CheckedISOs :
                                         (j - 1) * Len(CheckedIds) < k}} |->
        CheckedRow(k, CHOOSE i \in DOMAIN CheckedISOs : CheckedISOs[i] = iso)]
CheckCounts == {0, 2, 68, 120}
SavedHabits ==
    <<DEFAULT_HABITS
        \o <<[id |-> 4, name |-> "Yoga", active |-> TRUE],
             [id |-> InactiveId, name |-> "Kaffe", active |-> FALSE]>>,
      DEFAULT_HABITS,
      [i \in DOMAIN DEFAULT_HABITS |-> [DEFAULT_HABITS[i] EXCEPT !.active = FALSE]]>>
SavedISOs == {20240418, 20240229}

InitCompletion ==
    /\ \E t \in Todays : Constructed(t)
    /\ \E iso \in SavedISOs, h \in DOMAIN SavedHabits, k \in CheckCounts :
          storage = saveState(iso, "day", SavedHabits[h], CheckedFirst(k), EmptyObj)
    /\ timers = <<>>
    /\ pending = {}
    /\ phase = "mount"
    /\ uidCounter = DeletedId + 1
    /\ lastOp = [op |-> "construct", changed |-> FALSE]
    /\ steps = 0
    /\ fieldEdits = 0

NextCompletion ==
    \/ Mount
    \/ Effects
    \/ setHabitCheckForDate
    \/ toggleHabitActive

SpecCompletion == InitCompletion /\ [][NextCompletion]_vars

----------------------------------------------------------------------------
(* Properties: vocabulary *)

HabitIds(hs) == {hs[i].id : i \in DOMAIN hs}
Dates(events) == DOMAIN events
BlocksOn(events, iso) == Get(events, iso, <<>>)
AllBlocks(events) == UNION {Range(events[iso]) : iso \in DOMAIN events}
BlockIds(events) == {e.id : e \in AllBlocks(events)}
IsHabitBlock(e) == e.type = "habit"
HabitBlocksOn(events, iso) == SelectSeq(BlocksOn(events, iso), IsHabitBlock)
BlocksOfHabit(events, iso, h) ==
    SelectSeq(BlocksOn(events, iso), LAMBDA e : IsHabitBlock(e) /\ e.habitId = h)
BlocksNotOfHabit(events, iso, h) ==
    SelectSeq(BlocksOn(events, iso), LAMBDA e : ~(IsHabitBlock(e) /\ e.habitId = h))
\* the handler `op` ran in this step (Effects and other steps keep steps)
Ran(op) == lastOp'.op = op /\ steps' = steps + 1
\* nothing is in progress: no effect is due, no timer is set
Settled == Idle /\ timers = <<>>

----------------------------------------------------------------------------
(* C1: deleteHabit *)

\* C1: a deleteHabit(h) step removes h from the registry, every check entry of h
\* and every habit block of h on every date, and leaves every other registry
\* record, every other check entry and every other block (custom blocks and the
\* other habits' blocks, in their order) as they were.
C1_DeleteHabitFrame ==
    [][Ran("deleteHabit") =>
        \E h \in HabitIds(habits) :
            /\ h \notin HabitIds(habits')
            /\ \A i \in DOMAIN habits : habits[i].id # h =>
                  \E j \in DOMAIN habits' : habits'[j] = habits[i]
            /\ Len(habits') = Len(habits) - 1
            /\ DOMAIN habitChecksByDate' = DOMAIN habitChecksByDate
            /\ \A iso \in DOMAIN habitChecksByDate :
                  /\ h \notin DOMAIN habitChecksByDate'[iso]
                  /\ \A g \in (DOMAIN habitChecksByDate[iso]) \ {h} :
                        /\ g \in DOMAIN habitChecksByDate'[iso]
                        /\ habitChecksByDate'[iso][g] = habitChecksByDate[iso][g]
                  /\ DOMAIN habitChecksByDate'[iso] \subseteq DOMAIN habitChecksByDate[iso]
            /\ Dates(eventsByDate') = Dates(eventsByDate)
            /\ \A iso \in Dates(eventsByDate) :
                  /\ Len(BlocksOfHabit(eventsByDate', iso, h)) = 0
                  /\ eventsByDate'[iso] = BlocksNotOfHabit(eventsByDate, iso, h)
    ]_vars

\* a habit was deleted on a state that holds a custom block, blocks of the
\* deleted habit and of the others
C1_Witness ==
    /\ lastOp.op = "deleteHabit"
    /\ pending # {}
    /\ Len(habits) = Len(DEFAULT_HABITS) - 1
    /\ \E iso \in Dates(eventsByDate) :
          /\ \E e \in Range(eventsByDate[iso]) : e.type = "custom"
          /\ Len(HabitBlocksOn(eventsByDate, iso)) = Len(habits)

----------------------------------------------------------------------------
(* C2, C3: habit blocks and the registry *)

\* C2: between operations (no effect due, no timer set) every habit block on
\* every date has the habitId of a habit of the registry.
C2_NoDanglingHabitBlock ==
    Settled =>
        \A e \in AllBlocks(eventsByDate) :
            IsHabitBlock(e) => e.habitId \in HabitIds(habits)

\* the event store a step starts from: the mount step starts from the saved one
StoreBefore ==
    IF phase = "mount" /\ Len(storage) > 0 THEN storage[1].eventsByDate.val
    ELSE eventsByDate
\* the blocks a step adds, and the one step that adds a habit block without the
\* default-block updater: the drop, which clears the drag payload
AddedBlocks == {e \in AllBlocks(eventsByDate') : e.id \notin BlockIds(StoreBefore)}
DropStep == dragPayload.source # "none" /\ dragPayload' = NoPayload

\* C3: every block the default-block updater adds is of a habit that is in the
\* registry and active when the block is added.
C3_DefaultsOnlyForActive ==
    [][~DropStep =>
        \A e \in AddedBlocks :
            IsHabitBlock(e) =>
                \E i \in DOMAIN habits' : habits'[i].id = e.habitId /\ habits'[i].active
    ]_vars

\* C6: every block on every date has startMin in 0..1439.
C6_StartMinInDay ==
    \A e \in AllBlocks(eventsByDate) : e.startMin \in 0..(24 * 60 - 1)

----------------------------------------------------------------------------
(* C4, C5: the default-block updater as a function *)

\* the date lists and active-habit lists the updater is tried on in a state:
\* those of the three views, a list with a repeated date, the empty list; the
\* active habits, the closures of the mount effect and of the timers, no habit
TriedDateLists ==
    {visibleISOsOf(v, selectedISO) : v \in Views}
        \cup {<<selectedISO, selectedISO>>, <<>>}
TriedActives ==
    {activeHabits, activeHabitsOf(DEFAULT_HABITS), <<>>}
        \cup {timers[i].active : i \in DOMAIN timers}
TriedDates ==
    Range(weekISOs) \cup {goNextTarget("day", selectedISO)} \cup Dates(eventsByDate)

Once(isos, active) ==
    ensureDefaultHabitBlocksForDates(eventsByDate, isos, active, uidCounter)
Again(once, isos, active) ==
    ensureDefaultHabitBlocksForDates(once.events, isos, active, once.uid)
\* the second run left the store of the first as it is
SameAgain(once, isos, active) == Again(once, isos, active).events = once.events

\* C4: a second run of ensureDefaultHabitBlocksForDates with the same dates and
\* active habits leaves the event store of the first run as it is.
C4_Idempotent ==
    \A isos \in TriedDateLists, active \in TriedActives :
        SameAgain(Once(isos, active), isos, active)

\* the effect is due on a state where it adds blocks, and a second run adds none
C4_Witness ==
    /\ "materialize" \in pending
    /\ view = "week"
    /\ Once(visibleISOs, activeHabits).events # eventsByDate
    /\ SameAgain(Once(visibleISOs, activeHabits), visibleISOs, activeHabits)

\* C5: on a date without a habit block the updater makes one habit block per
\* active habit, in the registry's order, the k-th (from 0) at 480 + 45 * k, 30
\* minutes long, titled with the habit's name, light green; the date's other
\* blocks stay.
C5_PlacementOnFreeDay ==
    \A iso \in TriedDates, active \in TriedActives :
        Len(HabitBlocksOn(eventsByDate, iso)) = 0 =>
            LET after == Once(<<iso>>, active).events
                made  == HabitBlocksOn(after, iso)
            IN  /\ Len(made) = Len(active)
                /\ \A k \in DOMAIN active :
                      /\ made[k].habitId = active[k].id
                      /\ made[k].startMin = 480 + 45 * (k - 1)
                      /\ made[k].durationMin = 30
                      /\ made[k].title = active[k].name
                      /\ made[k].color = "#bbf7d0"
                /\ SelectSeq(BlocksOn(after, iso), LAMBDA e : ~IsHabitBlock(e))
                      = BlocksOn(eventsByDate, iso)

\* the effect made the blocks of three habits on a date shown for the first time
C5_Witness ==
    /\ Idle
    /\ lastOp.op = "goNext"
    /\ view = "day"
    /\ Len(activeHabits) = 3
    /\ [k \in 1..3 |-> HabitBlocksOn(eventsByDate, selectedISO)[k].startMin]
          = <<480, 525, 570>>

----------------------------------------------------------------------------
(* C7: the visible dates are covered *)

Covered ==
    \A iso \in Range(visibleISOs), i \in DOMAIN activeHabits :
        Len(BlocksOfHabit(eventsByDate, iso, activeHabits[i].id)) >= 1

NavigationOps == {"goPrev", "goNext", "goToday", "pickDate", "pickDay"}
CoveringOps == NavigationOps \cup {"setView", "addHabit", "activateHabit"}

\* C7 as stated: after any navigation step, view switch, habit add or habit
\* activation, once its effects ran, every visible date holds a habit block of
\* every active habit.
C7_CoveredAfterAny ==
    (Idle /\ lastOp.op \in CoveringOps) => Covered

\* C7, amended: after a navigation step or view switch that changed the selected
\* date or the view, after a habit add with a name that is not blank, and after a
\* habit activation, once its effects ran, every visible date holds a habit block
\* of every active habit.
C7_CoveredAfterChange ==
    (Idle /\ lastOp.op \in CoveringOps /\ lastOp.changed) => Covered

\* a week was shown for the first time and its seven dates are covered
C7_Witness ==
    /\ Idle
    /\ lastOp.op = "setView"
    /\ lastOp.changed
    /\ view = "week"
    /\ Len(activeHabits) = 3
    /\ Len(visibleISOs) = 7
    /\ Covered

----------------------------------------------------------------------------
(* C8, C9, C10: the month *)

YearOf(iso) == iso \div 10000
MonthOf(iso) == (iso \div 100) % 100
\* calendar months since year 0
MonthIndex(iso) == YearOf(iso) * 12 + MonthOf(iso) - 1
FirstOfMonth(iso) == DaysFromCivil(YearOf(iso), MonthOf(iso), 1)
LastOfMonth(iso) ==
    (IF MonthOf(iso) = 12 THEN DaysFromCivil(YearOf(iso) + 1, 1, 1)
     ELSE DaysFromCivil(YearOf(iso), MonthOf(iso) + 1, 1)) - 1
\* day number 0 was a Thursday
MondayOnOrBefore(d) == d - ((d + 3) % 7)
SundayOnOrAfter(d) == d + ((7 - ((d + 4) % 7)) % 7)
RunOfDates(from, to) == [i \in 1..(to - from + 1) |-> toISODate(from + i - 1)]

\* C8: in month view the visible dates are the run from the Monday on or before
\* the 1st of the selected date's month to the first Sunday on or after its last
\* day, a multiple of 7 dates.
C8_MonthGrid ==
    view = "month" =>
        /\ visibleISOs = RunOfDates(MondayOnOrBefore(FirstOfMonth(selectedISO)),
                                    SundayOnOrAfter(LastOfMonth(selectedISO)))
        /\ Len(visibleISOs) % 7 = 0

\* C9: the visible dates are 1 in day view, 7 in week view, at most 42 in month
\* view.
C9_VisibleCount ==
    /\ view = "day" => Len(visibleISOs) = 1
    /\ view = "week" => Len(visibleISOs) = 7
    /\ view = "month" => Len(visibleISOs) <= 42

\* C10: in month view goNext selects a date of the calendar month that follows
\* the selected date's month, goPrev one of the month that precedes it.
C10_MonthStep ==
    [][view = "month" =>
        /\ Ran("goNext") => MonthIndex(selectedISO') = MonthIndex(selectedISO) + 1
        /\ Ran("goPrev") => MonthIndex(selectedISO') = MonthIndex(selectedISO) - 1
    ]_vars

----------------------------------------------------------------------------
(* C11: navigation by days and weeks *)

DayNumber(iso) == parseISODate(iso)

\* C11: in day view goPrev and goNext move the selected date by -1 and +1
\* calendar day, in week view by -7 and +7 calendar days; goPrev, goNext and
\* goToday leave the view as it is.
C11_DayWeekStep ==
    [][/\ (Ran("goPrev") /\ view = "day") =>
              DayNumber(selectedISO') = DayNumber(selectedISO) - 1
       /\ (Ran("goNext") /\ view = "day") =>
              DayNumber(selectedISO') = DayNumber(selectedISO) + 1
       /\ (Ran("goPrev") /\ view = "week") =>
              DayNumber(selectedISO') = DayNumber(selectedISO) - 7
       /\ (Ran("goNext") /\ view = "week") =>
              DayNumber(selectedISO') = DayNumber(selectedISO) + 7
       /\ (Ran("goPrev") \/ Ran("goNext") \/ Ran("goToday")) => view' = view
    ]_vars

\* a week step back went over the turn of the year
C11_Witness ==
    /\ lastOp.op = "goPrev"
    /\ view = "week"
    /\ YearOf(selectedISO) = YearOf(toISODate(today)) - 1
    /\ DayNumber(selectedISO) = today - 7

----------------------------------------------------------------------------
(* C13: the load *)

IsDate(v) == toISODate(parseISODate(v)) = v
WellFormedISO(j) == j.shape = "string" /\ IsDate(j.val)
WellFormedView(j) == j.shape = "string" /\ j.val \in Views
WellFormedHabits(j) == j.shape = "array"
WellFormedMap(j) == j.shape = "object"
\* what a property of the stored item should leave in its state
StoredItem(field) ==
    IF Len(storage) > 0 /\ storage[1].text = "object" THEN storage[1][field]
    ELSE JUndefined
Expected(field, wellFormed, dflt) ==
    IF wellFormed THEN storage[1][field].val ELSE dflt
\* the default blocks the mount makes for today on the store the load left
WithTodaysBlocks(events) ==
    ensureDefaultHabitBlocksForDay(events, toISODate(today), DEFAULT_HABITS,
                                   uidCounter).events

\* C13: the load leaves each of selectedISO, view, habits, checks and events at
\* its default (today, day view, the three preset habits, no checks, no events)
\* when there is no item or the property is absent or of the wrong shape, loads
\* the well-formed ones, always ends (nothing is raised past it), and the view
\* is one of day, week, month afterwards.
C13_DefensiveLoad ==
    [][phase = "mount" =>
        /\ phase' = "run"
        /\ view' \in Views
        /\ view' = Expected("view", WellFormedView(StoredItem("view")), "day")
        /\ selectedISO' = Expected("selectedISO",
                                   WellFormedISO(StoredItem("selectedISO")),
                                   toISODate(today))
        /\ habits' = Expected("habits", WellFormedHabits(StoredItem("habits")),
                              DEFAULT_HABITS)
        /\ habitChecksByDate' =
              Expected("habitChecksByDate",
                       WellFormedMap(StoredItem("habitChecksByDate")), EmptyObj)
        /\ eventsByDate' =
              WithTodaysBlocks(
                  Expected("eventsByDate",
                           WellFormedMap(StoredItem("eventsByDate")), EmptyObj))
    ]_vars

----------------------------------------------------------------------------
(* C12: the round trip through the stored item *)

CoveredIn(v, iso, hs, events) ==
    \A d \in Range(visibleISOsOf(v, iso)), i \in DOMAIN activeHabitsOf(hs) :
        Len(BlocksOfHabit(events, d, activeHabitsOf(hs)[i].id)) >= 1
\* the stored item was saved by the app in a state whose visible dates were covered
SavedCovered ==
    /\ Len(storage) > 0
    /\ CoveredIn(storage[1].view.val, storage[1].selectedISO.val,
                 storage[1].habits.val, storage[1].eventsByDate.val)

\* C12: a start from an item the app saved in a covered state ends, once the
\* mount effects and the effects of the render after them ran, with the
\* selected date, view, habits, checks and events of the item: the mount step
\* installs them, and the effects after it change none of them.
C12_RoundTrip ==
    [][/\ (phase = "mount" /\ SavedCovered) =>
              /\ selectedISO' = storage[1].selectedISO.val
              /\ view' = storage[1].view.val
              /\ habits' = storage[1].habits.val
              /\ habitChecksByDate' = storage[1].habitChecksByDate.val
              /\ eventsByDate' = storage[1].eventsByDate.val
       /\ (phase = "run" /\ lastOp.op = "mount" /\ pending # {} /\ Covered) =>
              UNCHANGED <<selectedISO, view, habits, habitChecksByDate, eventsByDate>>
    ]_vars

----------------------------------------------------------------------------
(* C14, C15: moving, patching and deleting a block *)

TriedMinutes == DropRows \cup {0, 9 * 60, 24 * 60 - 1}

\* C14: moveEventToTime(date, id, m) of a block that is on the date sets its
\* startMin to m and leaves its other fields, the other blocks of the date (and
\* their order) and every other date's collection as they were.
C14_MoveFrame ==
    \A iso \in Dates(eventsByDate) :
        \A e \in Range(eventsByDate[iso]), m \in TriedMinutes :
            LET before == eventsByDate[iso]
                after  == moveEventToTime(eventsByDate, iso, e.id, m)
            IN  /\ Dates(after) = Dates(eventsByDate)
                /\ \A d \in Dates(eventsByDate) \ {iso} : after[d] = eventsByDate[d]
                /\ Len(after[iso]) = Len(before)
                /\ \A k \in DOMAIN before :
                      after[iso][k] = IF before[k].id = e.id
                                      THEN [before[k] EXCEPT !.startMin = m]
                                      ELSE before[k]

\* a drop moved one of the day's three default blocks to the last row
C14_Witness ==
    /\ lastOp.op = "dropOnRow"
    /\ lastOp.changed
    /\ Len(BlocksOn(eventsByDate, selectedISO)) = Len(DEFAULT_HABITS)
    /\ \E k \in DOMAIN BlocksOn(eventsByDate, selectedISO) :
          /\ BlocksOn(eventsByDate, selectedISO)[k].startMin = DAY_END_MIN
          /\ BlocksOn(eventsByDate, selectedISO)[k].durationMin = 30
          /\ BlocksOn(eventsByDate, selectedISO)[k].title = DEFAULT_HABITS[k].name

\* ids that no block has: null and the id uid() would hand out next
UnknownIds == {NoId, uidCounter}

\* C15: updateEventForDay, deleteEventForDay and moveEventToTime with an id that
\* no block of the date has, on a date with or without a collection, leave the
\* event store as it was.
C15_UnknownIdNoOp ==
    Idle => \A iso \in TriedDates, id \in UnknownIds, m \in TriedMinutes :
        /\ updateEventForDay(eventsByDate, iso, id, [title |-> "x"]) = eventsByDate
        /\ deleteEventForDay(eventsByDate, iso, id) = eventsByDate
        /\ moveEventToTime(eventsByDate, iso, id, m) = eventsByDate

----------------------------------------------------------------------------
(* C16: the dialog's save with a blank title *)

\* the save button was clicked in this step
SaveClicked == eventModalOpen /\ lastOp'.op = "saveEventModal"
Blank(t) == t.body = ""

\* C16: a save of the dialog, adding or editing, with a title that is empty or
\* white space only leaves every date's events as they were and the dialog open.
C16_BlankTitleRefused ==
    [][(SaveClicked /\ Blank(formTitle)) =>
          /\ eventsByDate' = eventsByDate
          /\ eventModalOpen'
    ]_vars

\* a block was being edited, its title was replaced by white space, save was
\* clicked
C16_Witness ==
    /\ lastOp.op = "saveEventModal"
    /\ eventModalOpen
    /\ editingEventId # NoId
    /\ Blank(formTitle)
    /\ formTitle.pre + formTitle.post > 0

----------------------------------------------------------------------------
(* C17: the drag payload after a drop *)

\* C17: after a drop on a row of the timeline the drag payload is empty, whether
\* the drop moved a block, made a block or changed nothing.
C17_PayloadCleared ==
    lastOp.op = "dropOnRow" => dragPayload = NoPayload

\* a habit was dragged from the palette, deleted, and dropped: nothing changed
C17_Witness ==
    /\ lastOp.op = "dropOnRow"
    /\ ~lastOp.changed
    /\ Len(habits) = Len(DEFAULT_HABITS) - 1
    /\ dragPayload = NoPayload

----------------------------------------------------------------------------
(* C18, C19: completionForRange *)

\* the dates from a start to an end, and the (date, active habit) pairs whose
\* entry of the checks table is true
DatesBetween(startIso, endIso) ==
    {toISODate(d) : d \in DayNumber(startIso)..DayNumber(endIso)}
CheckedPairs(startIso, endIso, active, checks) ==
    {p \in DatesBetween(startIso, endIso) \X DOMAIN active :
        /\ p[1] \in DOMAIN checks
        /\ active[p[2]].id \in DOMAIN checks[p[1]]
        /\ checks[p[1]][active[p[2]].id] = TRUE}

\* ranges with start <= end: the three the page shows, one across the end of a
\* leap February, the ticked days of April
TriedRanges ==
    {<<selectedISO, selectedISO>>,
     <<toISODate(MondayOnOrBefore(DayNumber(selectedISO))),
       toISODate(SundayOnOrAfter(DayNumber(selectedISO)))>>,
     <<toISODate(FirstOfMonth(selectedISO)), toISODate(LastOfMonth(selectedISO))>>,
     <<20240228, 20240302>>,
     <<20240401, 20240418>>}
\* the active habits of the page, every habit taken as active, none
TriedActiveHabits == {activeHabits, habits, <<>>}

ExampleHabits ==
    <<[id |-> 1, name |-> "A", active |-> TRUE],
      [id |-> 2, name |-> "B", active |-> TRUE]>>
ExampleChecks ==
    [iso \in {20240301, 20240302, 20240303} |-> [id \in {1} |-> TRUE]]

\* C18: for a range with start <= end, active habits and a checks table,
\* completionForRange returns total = number of dates * number of active habits
\* and done = number of (date, active habit) pairs whose entry is true: missing
\* entries and entries of inactive or deleted habits do not count, so that
\* done <= total. 2 active habits over 3 days, A ticked on each and B on none,
\* give done 3, total 6, pct 50.
C18_DoneAndTotal ==
    /\ \A r \in TriedRanges, active \in TriedActiveHabits :
          LET c == completionForRange(r[1], r[2], active, habitChecksByDate)
          IN  /\ c.total = Cardinality(DatesBetween(r[1], r[2])) * Len(active)
              /\ c.done = Cardinality(CheckedPairs(r[1], r[2], active,
                                                   habitChecksByDate))
              /\ c.done <= c.total
    /\ completionForRange(20240301, 20240303, ExampleHabits, ExampleChecks)
          = [done |-> 3, total |-> 6, pct |-> 50]

\* a box was ticked; the month has ticked boxes of active habits, of an inactive
\* habit and of a deleted one, boxes not ticked and dates without a row
C18_Witness ==
    /\ Idle
    /\ lastOp.op = "setHabitCheckForDate"
    /\ monthComp.done > 0
    /\ monthComp.done < monthComp.total
    /\ \E iso \in DOMAIN habitChecksByDate :
          /\ IsChecked(habitChecksByDate, iso, InactiveId)
          /\ IsChecked(habitChecksByDate, iso, DeletedId)
          /\ InactiveId \in HabitIds(habits) \ HabitIds(activeHabits)
          /\ DeletedId \notin HabitIds(habits)
    /\ \E iso \in Range(CheckedISOs) : iso \notin DOMAIN habitChecksByDate

\* done / total * 100 rounded to the nearest integer, a half rounded up
HalfUp(done, total) == (200 * done + total) \div (2 * total)
\* the ranges above and one that is empty: it ends the day before it starts
TriedRangesAndEmpty ==
    TriedRanges \cup {<<selectedISO, toISODate(DayNumber(selectedISO) - 1)>>}

\* C19: completionForRange returns pct = done / total * 100 rounded half up
\* when total > 0, a number of 0..100, and returns done 0, total 0, pct 0 when
\* there are no active habits or the range is empty.
C19_PctRoundedHalfUp ==
    \A r \in TriedRangesAndEmpty, active \in TriedActiveHabits :
        LET c == completionForRange(r[1], r[2], active, habitChecksByDate)
        IN  /\ c.total > 0 => (c.pct = HalfUp(c.done, c.total) /\ c.pct \in 0..100)
            /\ (Len(active) = 0 \/ DayNumber(r[1]) > DayNumber(r[2])) =>
                  c = [done |-> 0, total |-> 0, pct |-> 0]

----------------------------------------------------------------------------
(* C20: the sorted read of the selected date *)

\* how often a block occurs in a list, and the place of a block's id in it
Occurrences(list, e) == Cardinality({i \in DOMAIN list : list[i] = e})
PlaceOfId(list, id) == CHOOSE i \in DOMAIN list : list[i].id = id
\* uid() hands out growing ids: a collection in the order of insertion is in the
\* order of its ids
InInsertionOrder(list) ==
    \A i, j \in DOMAIN list : i < j => list[i].id < list[j].id

----------------------------------------------------------------------------
(* C21: addHabit *)

\* C21: addHabit with a name that is empty after trimming leaves the registry,
\* the checks and the events as they were (the text stays in the input); with
\* a name that is not, it appends one habit to the end of the registry, with
\* the trimmed name, active, with an id no habit had, and leaves the habits
\* there were and their order as they were.
C21_AddHabit ==
    [][Ran("addHabit") =>
        \E typed \in NameInputs :
            IF typed.body = ""
            THEN /\ newHabitName' = typed
                 /\ habits' = habits
                 /\ habitChecksByDate' = habitChecksByDate
                 /\ eventsByDate' = eventsByDate
            ELSE /\ newHabitName' = PlainText("")
                 /\ Len(habits') = Len(habits) + 1
                 /\ SubSeq(habits', 1, Len(habits)) = habits
                 /\ habits'[Len(habits')].name = typed.body
                 /\ habits'[Len(habits')].active
                 /\ habits'[Len(habits')].id \notin HabitIds(habits)
    ]_vars

\* a habit was added to a registry that holds habits
C21_Witness ==
    /\ lastOp.op = "addHabit"
    /\ lastOp.changed
    /\ Len(habits) > 1
    /\ habits[Len(habits)].name = "Yoga"
    /\ Cardinality(HabitIds(habits)) = Len(habits)

----------------------------------------------------------------------------
(* C22: toggleHabitActive *)

\* a habit's toggle was clicked in this step
RanToggle == Ran("activateHabit") \/ Ran("deactivateHabit")
\* the effects of the render a toggle caused run in this step
EffectsOfToggle ==
    /\ lastOp.op \in {"activateHabit", "deactivateHabit"}
    /\ pending # {}
    /\ pending' = {}
\* every block there was is where it was: blocks were at most appended
BlocksKept ==
    \A iso \in DOMAIN eventsByDate :
        /\ iso \in DOMAIN eventsByDate'
        /\ Len(eventsByDate'[iso]) >= Len(eventsByDate[iso])
        /\ SubSeq(eventsByDate'[iso], 1, Len(eventsByDate[iso])) = eventsByDate[iso]

\* C22: toggleHabitActive(id) flips the active flag of the one habit of that id;
\* its name and id, the order of the registry, every other habit, every check
\* and every block there is (those of a habit switched off too) stay as they
\* were; with an id that no habit has nothing changes.
C22_ToggleFrame ==
    [][/\ RanToggle =>
            /\ Len(habits') = Len(habits)
            /\ \E i \in DOMAIN habits :
                  \A j \in DOMAIN habits :
                      /\ habits'[j].id = habits[j].id
                      /\ habits'[j].name = habits[j].name
                      /\ habits'[j].active = (IF j = i THEN ~habits[j].active
                                              ELSE habits[j].active)
            /\ habitChecksByDate' = habitChecksByDate
            /\ eventsByDate' = eventsByDate
       /\ EffectsOfToggle =>
            /\ habits' = habits
            /\ habitChecksByDate' = habitChecksByDate
            /\ BlocksKept
       /\ \A id \in {NoId, uidCounter} : toggleHabitActiveIn(habits, id) = habits
    ]_vars

\* a habit with a ticked box and a block was switched off, the effects ran
C22_Witness ==
    /\ lastOp.op = "deactivateHabit"
    /\ Idle
    /\ \E i \in DOMAIN habits :
          /\ ~habits[i].active
          /\ \E iso \in DOMAIN eventsByDate :
                /\ Len(BlocksOfHabit(eventsByDate, iso, habits[i].id)) > 0
                /\ IsChecked(habitChecksByDate, iso, habits[i].id)
    /\ Len(activeHabits) > 0

----------------------------------------------------------------------------
(* C23: the duration of a block *)

\* C23: every block of the event store (made by the default-block updater, by a
\* drop from the palette or by a save of the dialog, whatever was typed as its
\* duration) has durationMin >= 5.
C23_DurationAtLeast5 ==
    /\ \A e \in AllBlocks(eventsByDate) : e.durationMin >= 5
    /\ \A d \in DurationInputs \cup {Num(3), Num(5), Num(45)} :
          FormPatch("Gym").durationMin >= 5 /\ DurationOf(d) >= 5

\* the dialog was saved with a negative duration typed: the store holds the
\* block it patched, default blocks and a block dropped from the palette
C23_Witness ==
    /\ lastOp.op = "saveEventModal"
    /\ lastOp.changed
    /\ formDuration = Num(-10)
    /\ \E e \in AllBlocks(eventsByDate) : e.durationMin = 5
    /\ \E iso \in DOMAIN eventsByDate :
          Len(HabitBlocksOn(eventsByDate, iso)) > Len(habits)

----------------------------------------------------------------------------
(* C24, C25: the week and the month of a date *)

\* day number 4, 1970-01-05, was a Monday
IsMonday(d) == (d - 4) % 7 = 0

\* C24: startOfISOWeek(d) is a Monday, startOfISOWeek(d) <= d <= endOfISOWeek(d),
\* endOfISOWeek(d) is 6 days after startOfISOWeek(d), and the visible dates of
\* the week view are those 7 dates in a row.
C24_WeekOfDate ==
    /\ IsMonday(startOfISOWeek(selectedDate))
    /\ startOfISOWeek(selectedDate) <= selectedDate
    /\ selectedDate <= endOfISOWeek(selectedDate)
    /\ endOfISOWeek(selectedDate) = startOfISOWeek(selectedDate) + 6
    /\ view = "week" =>
          visibleISOs = RunOfDates(MondayOnOrBefore(DayNumber(selectedISO)),
                                   MondayOnOrBefore(DayNumber(selectedISO)) + 6)

\* the week view shows the week of a Sunday: it ends on the selected date
C24_Witness ==
    /\ view = "week"
    /\ Idle
    /\ lastOp.op \in {"goPrev", "goNext", "setView"}
    /\ IsMonday(selectedDate + 1)
    /\ visibleISOs[7] = selectedISO

\* the days of month m (1..12) of year y
LengthOfMonth(y, m) ==
    IF m = 2 THEN (IF y % 4 = 0 /\ (y % 100 # 0 \/ y % 400 = 0) THEN 29 ELSE 28)
    ELSE IF m \in {4, 6, 9, 11} THEN 30 ELSE 31
\* the first day of the month after that of an ISO date
FirstOfNextMonth(iso) ==
    IF MonthOf(iso) = 12 THEN (YearOf(iso) + 1) * 10000 + 101
    ELSE YearOf(iso) * 10000 + (MonthOf(iso) + 1) * 100 + 1

\* C25: startOfMonth(d) is day 1 of d's month, endOfMonth(d) is the last day of
\* d's month (every length of month, February of a leap year, December), and
\* the day after endOfMonth(d) is the first day of the month that follows.
C25_MonthOfDate ==
    /\ toISODate(startOfMonth(selectedDate)) = (selectedISO \div 100) * 100 + 1
    /\ toISODate(endOfMonth(selectedDate)) =
          (selectedISO \div 100) * 100
              + LengthOfMonth(YearOf(selectedISO), MonthOf(selectedISO))
    /\ toISODate(addDays(endOfMonth(selectedDate), 1)) = FirstOfNextMonth(selectedISO)
    /\ addDays(endOfMonth(selectedDate), 1)
          = startOfMonth(addDays(endOfMonth(selectedDate), 1))

\* the 31st of December is selected: its month ends on it, the next is January
C25_Witness ==
    /\ selectedISO = 20241231
    /\ lastOp.op \in {"goPrev", "goNext", "pickDay"}
    /\ endOfMonth(selectedDate) = selectedDate
    /\ toISODate(addDays(endOfMonth(selectedDate), 1)) = 20250101

----------------------------------------------------------------------------
(* C26: placement after the habit blocks of a date *)

\* the smallest multiple of 15 that is >= x
CeilTo15(x) == x + ((15 - (x % 15)) % 15)
\* collections tried for a date: each head of the stored one, alone and followed
\* by the custom blocks of the stored one
TriedCollections(iso) ==
    {SubSeq(BlocksOn(eventsByDate, iso), 1, k) :
        k \in 0..Len(BlocksOn(eventsByDate, iso))}
    \cup {SubSeq(BlocksOn(eventsByDate, iso), 1, k)
            \o SelectSeq(BlocksOn(eventsByDate, iso), LAMBDA e : ~IsHabitBlock(e)) :
          k \in 0..Len(BlocksOn(eventsByDate, iso))}
\* the blocks the updater appends to a date that holds `existing`
MadeAfter(existing, iso, active) ==
    SubSeq(ensureDefaultHabitBlocksForDay(Put(eventsByDate, iso, existing), iso,
                                          active, uidCounter).events[iso],
           Len(existing) + 1,
           Len(ensureDefaultHabitBlocksForDay(Put(eventsByDate, iso, existing), iso,
                                              active, uidCounter).events[iso]))
LastHabitEnd(existing) ==
    MaxOf({e.startMin + e.durationMin : e \in {b \in Range(existing) : IsHabitBlock(b)}})
StartsOf(blocks) == [k \in DOMAIN blocks |-> blocks[k].startMin]

----------------------------------------------------------------------------
(* C27: the default-block updater and the visible dates *)

\* the steps that run the default-block updater: the mount effects, the effects
\* of a render, the timer of the recreate-defaults button
UpdaterStep ==
    \/ phase = "mount"
    \/ phase = "run" /\ pending # {}
    \/ phase' = "run" /\ Len(timers') < Len(timers)
\* the dates whose collection a step changed
ChangedDates ==
    {iso \in DOMAIN eventsByDate' : eventsByDate'[iso] # BlocksOn(StoreBefore, iso)}

\* C27: the default-block updater adds blocks only to dates that are visible in
\* the state in which they are added, and leaves the collection of every other
\* date as it was, in every run of load, navigation, view switches and clicks
\* on recreate-defaults.
C27_OnlyVisibleDates ==
    [][UpdaterStep =>
        ChangedDates \subseteq Range(visibleISOsOf(view', selectedISO'))]_vars

----------------------------------------------------------------------------
(* C28: navigation and view switches *)

ViewingOps == NavigationOps \cup {"setView"}
\* the effects of the render a navigation step or a view switch caused run
EffectsOfViewing ==
    /\ lastOp.op \in ViewingOps
    /\ pending # {}
    /\ pending' = {}
\* the blocks a step appended to a date
AppendedOn(iso) ==
    SubSeq(eventsByDate'[iso], Len(BlocksOn(eventsByDate, iso)) + 1,
           Len(eventsByDate'[iso]))

\* C28: a step to the previous or next period or to today, a pick of a day and
\* a switch of view leave the registry and the checks as they were and no block
\* is changed or removed: all that changes in the event store is that the
\* default-block effect appends habit blocks on dates of the new visible set.
C28_ViewingFrame ==
    [][/\ (steps' = steps + 1 /\ lastOp'.op \in ViewingOps) =>
            /\ habits' = habits
            /\ habitChecksByDate' = habitChecksByDate
            /\ eventsByDate' = eventsByDate
       /\ EffectsOfViewing =>
            /\ habits' = habits
            /\ habitChecksByDate' = habitChecksByDate
            /\ BlocksKept
            /\ \A iso \in DOMAIN eventsByDate' :
                  \A e \in Range(AppendedOn(iso)) : IsHabitBlock(e)
            /\ {iso \in DOMAIN eventsByDate' : Len(AppendedOn(iso)) > 0}
                  \subseteq Range(visibleISOsOf(view', selectedISO'))
    ]_vars

\* a habit block of the selected date was deleted and the week was shown: the
\* effect made the missing block again next to the two that were left, and the
\* blocks of the week's other dates
C28_Witness ==
    /\ Idle
    /\ lastOp.op = "setView"
    /\ view = "week"
    /\ Len(activeHabits) = 3
    /\ Covered
    /\ HabitBlocksOn(eventsByDate, selectedISO)[3].habitId
          # activeHabits[3].id

----------------------------------------------------------------------------
(* C29: the dialog's save with a title *)

\* the save button was clicked on a title that is not blank
SavedWithTitle == SaveClicked /\ ~Blank(formTitle)
\* what was entered: the minute of the time field when it holds a time, the
\* number of the duration field raised to 5 when it is below
TimeEntered == Len(formTime) = 2
MinuteEntered == formTime[1] * 60 + formTime[2]
DurationEntered == IF formDuration.val < 5 THEN 5 ELSE formDuration.val
\* block b holds what was entered in the fields
HoldsFields(b) ==
    /\ b.title = formTitle.body
    /\ TimeEntered => b.startMin = MinuteEntered
    /\ b.durationMin >= 5
    /\ ~formDuration.nan => b.durationMin = DurationEntered
    /\ b.color = formColor
    /\ b.notes = formNotes
OtherDatesKept ==
    \A iso \in (DOMAIN eventsByDate \cup DOMAIN eventsByDate') \ {eventModalISO} :
        /\ iso \in DOMAIN eventsByDate
        /\ iso \in DOMAIN eventsByDate'
        /\ eventsByDate'[iso] = eventsByDate[iso]

\* C29: a save of the dialog with a title that is not blank, in add mode,
\* appends one custom block without habitId to the dialog's date, with the
\* title, start minute, colour and notes entered and the duration entered,
\* raised to 5 when below; in edit mode it changes title, startMin, durationMin,
\* color and notes of the edited block and leaves its id, kind and habitId; in
\* both modes every other block is unchanged and the dialog closes.
C29_SaveFrame ==
    [][SavedWithTitle =>
        /\ ~eventModalOpen'
        /\ OtherDatesKept
        /\ eventModalISO \in DOMAIN eventsByDate'
        /\ IF editingEventId = NoId
           THEN /\ Len(eventsByDate'[eventModalISO])
                      = Len(BlocksOn(eventsByDate, eventModalISO)) + 1
                /\ BlocksKept
                /\ LET b == eventsByDate'[eventModalISO][Len(eventsByDate'[eventModalISO])]
                   IN  /\ b.type = "custom"
                       /\ "habitId" \notin DOMAIN b
                       /\ b.id \notin BlockIds(eventsByDate)
                       /\ HoldsFields(b)
           ELSE /\ Len(eventsByDate'[eventModalISO])
                      = Len(BlocksOn(eventsByDate, eventModalISO))
                /\ \A k \in DOMAIN eventsByDate'[eventModalISO] :
                      LET old == eventsByDate[eventModalISO][k]
                          new == eventsByDate'[eventModalISO][k]
                      IN  IF old.id # editingEventId THEN new = old
                          ELSE /\ new.id = old.id
                               /\ new.type = old.type
                               /\ DOMAIN new = DOMAIN old
                               /\ "habitId" \in DOMAIN old => new.habitId = old.habitId
                               /\ HoldsFields(new)
    ]_vars

----------------------------------------------------------------------------
(* C30: the drop on a row of the timeline *)

\* a drag from the palette, of a habit of the registry, is dropped in this step
PaletteDrop ==
    /\ lastOp'.op = "dropOnRow"
    /\ dragPayload.source = "palette"
    /\ dragPayload.habitId \in HabitIds(habits)
\* a drag of a block is dropped in this step
ExistingDrop == lastOp'.op = "dropOnRow" /\ dragPayload.source = "existing"
NameOfHabit(id) == (CHOOSE h \in Range(habits) : h.id = id).name
OtherDatesOfDropKept ==
    \A iso \in (DOMAIN eventsByDate \cup DOMAIN eventsByDate') \ {selectedISO} :
        /\ iso \in DOMAIN eventsByDate
        /\ iso \in DOMAIN eventsByDate'
        /\ eventsByDate'[iso] = eventsByDate[iso]

\* C30: the drop of a palette payload of a habit of the registry on the row of
\* minute M of the selected date D appends one habit block to D, of that habit,
\* titled with its name, at M, 30 minutes long and light green, also when D
\* holds a block of the habit, and changes no block; the drop of a block's
\* payload is moveEventToTime(D, eventId, M) and makes no block.
C30_DropOnRow ==
    [][/\ PaletteDrop =>
            /\ OtherDatesOfDropKept
            /\ Len(eventsByDate'[selectedISO])
                  = Len(BlocksOn(eventsByDate, selectedISO)) + 1
            /\ BlocksKept
            /\ LET b == eventsByDate'[selectedISO][Len(eventsByDate'[selectedISO])]
               IN  /\ b.type = "habit"
                   /\ b.habitId = dragPayload.habitId
                   /\ b.title = NameOfHabit(dragPayload.habitId)
                   /\ b.startMin \in DropRows
                   /\ b.durationMin = 30
                   /\ b.color = "#bbf7d0"
                   /\ b.id \notin BlockIds(eventsByDate)
       /\ ExistingDrop =>
            /\ \E m \in DropRows :
                  eventsByDate' = moveEventToTime(eventsByDate, selectedISO,
                                                  dragPayload.eventId, m)
            /\ BlockIds(eventsByDate') = BlockIds(eventsByDate)
            /\ \A iso \in DOMAIN eventsByDate :
                  Len(eventsByDate'[iso]) = Len(eventsByDate[iso])
    ]_vars

\* a habit was dropped from the palette on a date that held its default block:
\* the date holds two blocks of the habit, the new one on the last row
C30_Witness ==
    /\ lastOp.op = "dropOnRow"
    /\ lastOp.changed
    /\ \E i \in DOMAIN habits :
          /\ Len(BlocksOfHabit(eventsByDate, selectedISO, habits[i].id)) = 2
          /\ BlocksOfHabit(eventsByDate, selectedISO, habits[i].id)[2].startMin
                = DAY_END_MIN
          /\ BlocksOfHabit(eventsByDate, selectedISO, habits[i].id)[2].title
                = habits[i].name

----------------------------------------------------------------------------
(* C31: the checks table *)

\* the entries of a checks table: <<date, habit, value>>
Entries(checks) ==
    UNION {{<<iso, h, checks[iso][h]>> : h \in DOMAIN checks[iso]}
              : iso \in DOMAIN checks}
\* the page is loaded in this step: the table is constructed or read from storage
LoadStep == lastOp'.op \in {"mount", "reload"}
\* the entry (iso, h) is set to v in this step, and nothing else of the table
SetsEntry(iso, h, v) ==
    /\ iso \in DOMAIN habitChecksByDate'
    /\ h \in DOMAIN habitChecksByDate'[iso]
    /\ habitChecksByDate'[iso][h] = v
    /\ Entries(habitChecksByDate')
          = {t \in Entries(habitChecksByDate) : t[1] # iso \/ t[2] # h}
               \cup {<<iso, h, v>>}
    /\ \A d \in DOMAIN habitChecksByDate : d # iso =>
          /\ d \in DOMAIN habitChecksByDate'
          /\ habitChecksByDate'[d] = habitChecksByDate[d]

\* C31: setHabitCheckForDate(date, habit, v) sets the entry (date, habit) of the
\* checks table to v and leaves every other entry; deleteHabit only removes
\* entries; every other step of the loaded page (navigation, view switch, the
\* default-block effect and timer, habit add and toggle, every operation on
\* blocks) leaves the table as it was.
C31_ChecksFrame ==
    [][/\ Ran("setHabitCheckForDate") =>
            \E iso \in Range(weekISOs), h \in HabitIds(activeHabits) :
                SetsEntry(iso, h, ~IsChecked(habitChecksByDate, iso, h))
       /\ Ran("deleteHabit") =>
            Entries(habitChecksByDate') \subseteq Entries(habitChecksByDate)
       /\ ~(Ran("setHabitCheckForDate") \/ Ran("deleteHabit") \/ LoadStep) =>
            habitChecksByDate' = habitChecksByDate
    ]_vars

\* a second habit of a date was checked: the date holds two entries
C31_Witness ==
    /\ lastOp.op = "setHabitCheckForDate"
    /\ \E iso \in DOMAIN habitChecksByDate :
          \E g, h \in DOMAIN habitChecksByDate[iso] :
              g # h /\ habitChecksByDate[iso][g] /\ habitChecksByDate[iso][h]

----------------------------------------------------------------------------
(* C32: the save effect *)

\* the states the save effect writes
Persisted == <<selectedISO, view, habits, habitChecksByDate, eventsByDate>>
\* the item of the state that is in memory
BlobOfMemory ==
    saveState(selectedISO, view, habits, habitChecksByDate, eventsByDate)
\* the effects of a render ran in this step
EffectsRan == phase = "run" /\ pending # {} /\ pending' = {}
\* the events the effects of the render leave in memory
EventsAfterEffects ==
    IF "materialize" \in pending
    THEN ensureDefaultHabitBlocksForDates(eventsByDate, visibleISOs, activeHabits,
                                          uidCounter).events
    ELSE eventsByDate

\* C32: a step that changes a persisted state of the loaded page leaves effects
\* to run; when they have run and the save went through, the stored item is the
\* selected date, view, habits, checks and events in memory; when the save threw,
\* the memory is what the effects make of it without the throw, no state of the
\* page is lost, and the page is between renders again, open to the next
\* operation.
C32_SavedAfterEffects ==
    [][/\ (phase' = "run" /\ Persisted' # Persisted) => (pending # {} \/ pending' # {})
       /\ Effects => storage' = BlobOfMemory'
       /\ (EffectsRan /\ storage' # BlobOfMemory') =>
            /\ UNCHANGED <<selectedISO, view, habits, habitChecksByDate>>
            /\ eventsByDate' = EventsAfterEffects
            /\ UNCHANGED <<today, newHabitName, dragPayload, modalVars, formVars,
                           timers, phase, lastOp, steps, fieldEdits>>
            /\ Idle'
       /\ phase = "mount" => (phase' = "run" /\ pending' # {})
    ]_vars

\* the save after the first deleteHabit threw (the item still holds the default
\* habits), and the second deleteHabit has applied to what the first left
C32_Witness ==
    /\ steps = 2
    /\ lastOp.op = "deleteHabit"
    /\ pending # {}
    /\ Len(habits) = Len(DEFAULT_HABITS) - 2
    /\ Len(storage) > 0
    /\ storage[1].habits.val = DEFAULT_HABITS

----------------------------------------------------------------------------
(* C33: a habit switched on again *)

\* the effects of the render after a habit was switched on run in this step
ReactivationEffects == lastOp.op = "activateHabit" /\ EffectsRan
\* where the cursor is on a date: 15 minutes after the latest end of its habit
\* blocks, rounded up to the grid, or 08:00 on a date without habit blocks
CursorOn(events, d) ==
    IF Len(HabitBlocksOn(events, d)) = 0 THEN 8 * 60
    ELSE CeilTo15(LastHabitEnd(BlocksOn(events, d)) + 15)
\* the start of the default block of habit h, which the saved date held
OriginalStart(h) ==
    BlocksOfHabit(OriginalBlocks(selectedISO), selectedISO, h)[1].startMin
\* habit h is switched on and has no block on the visible date d
Lacking(d, h) ==
    /\ h \in HabitIds(activeHabits)
    /\ Len(BlocksOfHabit(eventsByDate, d, h)) = 0

LackingBefore(d, h) ==
    {i \in DOMAIN activeHabits :
        /\ Lacking(d, activeHabits[i].id)
        /\ \E k \in DOMAIN activeHabits : i < k /\ activeHabits[k].id = h}

----------------------------------------------------------------------------
(* C34: the blocks of the updater and the grid *)

\* a block moved and lengthened by minutes that are no multiple of the grid step
OffGrid(e, by) ==
    [e EXCEPT !.startMin = e.startMin + by, !.durationMin = e.durationMin + by + 1]
\* the collections tried for a date, each with its habit blocks off the grid
OffGridCollections(iso) ==
    {[k \in DOMAIN existing |->
         IF IsHabitBlock(existing[k]) THEN OffGrid(existing[k], by) ELSE existing[k]]
        : existing \in TriedCollections(iso), by \in {1, 7}}
OnGrid(m) == m % 15 = 0

----------------------------------------------------------------------------
(* C35: one run of the updater on one date *)

\* the blocks a step appended to date d
AppendedTo(d) ==
    SubSeq(eventsByDate'[d], Len(BlocksOn(StoreBefore, d)) + 1, Len(eventsByDate'[d]))
EndOf(e) == e.startMin + e.durationMin
Disjoint(a, b) == EndOf(a) <= b.startMin \/ EndOf(b) <= a.startMin
\* what one run may do to date d, which held `old`, by appending `new`
OneRunOn(old, new) ==
    /\ \A j \in DOMAIN new : IsHabitBlock(new[j])
    /\ \A j, k \in DOMAIN new : j # k =>
          /\ new[j].habitId # new[k].habitId
          /\ Disjoint(new[j], new[k])
    /\ \A j \in DOMAIN new, e \in Range(old) : IsHabitBlock(e) =>
          /\ new[j].habitId # e.habitId
          /\ new[j].startMin >= EndOf(e) + 15

----------------------------------------------------------------------------
(* C36: the recreate-defaults button *)

CustomBlocksOn(events, iso) == SelectSeq(BlocksOn(events, iso), LAMBDA e : ~IsHabitBlock(e))
\* every date but the selected one has the collection it had
OtherCollectionsKept ==
    \A d \in (DOMAIN eventsByDate \cup DOMAIN eventsByDate') \ {selectedISO} :
        /\ d \in DOMAIN eventsByDate
        /\ d \in DOMAIN eventsByDate'
        /\ eventsByDate'[d] = eventsByDate[d]
\* the timer of the click runs in this step, nothing but effects ran since the
\* click: the click is the last operation, and no timer of an earlier click is
\* still due before its own
TimerOfClick ==
    /\ lastOp.op = "recreateDefaults"
    /\ Len(timers) = 1
    /\ lastOp'.op = "timer"
\* the effects of the render after the click run in this step
EffectsOfClick == lastOp.op = "recreateDefaults" /\ EffectsRan

\* C36: the click on recreate-defaults leaves the selected date D with its custom
\* blocks alone; the effects after it change no block; the timer of the click,
\* when it runs next, gives D one habit block for each active habit, in the order
\* of the registry at 480, 525, 570, ..., and no other habit block; the custom
\* blocks of D and the collections of the other dates are as they were, in all
\* three steps.
C36_RecreateDefaults ==
    [][/\ Ran("recreateDefaults") =>
            /\ eventsByDate'[selectedISO] = CustomBlocksOn(eventsByDate, selectedISO)
            /\ OtherCollectionsKept
       /\ EffectsOfClick => eventsByDate' = eventsByDate
       /\ TimerOfClick =>
            /\ Len(HabitBlocksOn(eventsByDate', selectedISO)) = Len(activeHabits)
            /\ \A k \in DOMAIN activeHabits :
                  /\ HabitBlocksOn(eventsByDate', selectedISO)[k].habitId
                        = activeHabits[k].id
                  /\ HabitBlocksOn(eventsByDate', selectedISO)[k].startMin
                        = 480 + 45 * (k - 1)
            /\ CustomBlocksOn(eventsByDate', selectedISO)
                  = CustomBlocksOn(eventsByDate, selectedISO)
            /\ OtherCollectionsKept
            /\ UNCHANGED <<selectedISO, habits>>
    ]_vars

\* the first default habit was switched off, then recreate-defaults was clicked
\* and its timer ran: the date holds the blocks of the second and the third habit
\* at 08:00 and 08:45, and none of the first
C36_Witness ==
    /\ lastOp.op = "timer"
    /\ lastOp.changed
    /\ steps = 2
    /\ Len(habits) = Len(DEFAULT_HABITS)
    /\ ~habits[1].active
    /\ Len(HabitBlocksOn(eventsByDate, selectedISO)) = 2
    /\ HabitBlocksOn(eventsByDate, selectedISO)[1].habitId = habits[2].id
    /\ HabitBlocksOn(eventsByDate, selectedISO)[1].startMin = 480
    /\ HabitBlocksOn(eventsByDate, selectedISO)[2].habitId = habits[3].id
    /\ HabitBlocksOn(eventsByDate, selectedISO)[2].startMin = 525

====
